---------------------------- MODULE Spec2Model ----------------------------
(***************************************************************************)
(* A model of the pipeline orchestration engine of pipeops-cli: the        *)
(* repository client (Core/GitLabHandler.py), the pipeline generator       *)
(* (Core/PipelineGenerator.py) and the pipeline monitor                    *)
(* (Core/PipelineMonitor.py), run against a model of the repository host.  *)
(*                                                                         *)
(* Every network call of the client is one run of _simple_retry over       *)
(* _make_request.  What the network does to one attempt is an input:       *)
(*   "ok"    the request reaches the host and its response comes back      *)
(*           (a response with status >= 400 is raised as an HTTPError);    *)
(*   "conn"  the request never reaches the host (a connection error or     *)
(*           timeout, which is not an HTTPError);                          *)
(*   "lost"  the host applies the request but its response is lost (the    *)
(*           client sees the same non-HTTP error);                         *)
(*   "e500"  the host answers 500 without applying anything (HTTPError).   *)
(***************************************************************************)
EXTENDS Integers, Sequences, FiniteSets, TLC

VARIABLES
    remote,          \* the repository host: branches, merge requests, pipeline, jobs,
                     \* CI/CD variables
    max_retries,     \* GitLabHandler.max_retries
    project_info,    \* GitLabHandler._project_info ("None" or the metadata)
    default_branch,  \* GitLabHandler._default_branch ("None" or a name)
    clock,           \* time.time(), in seconds since the run began
    pc,              \* position of the running operation
    rt,              \* _simple_retry: the call under test and its outcome
    log,             \* the calls a session has made: who, what, attempts, value
    an,              \* ProjectAnalyzer.analyze: project_data, locals, result
    cb,              \* create_branch: arguments, locals, result
    mr,              \* create_merge_request: arguments, locals, result
    gen,             \* generate_and_commit: arguments, locals, result
    fl,              \* get_file_list: arguments, locals, result
    mon,             \* monitor_pipeline: arguments, locals, result
    hdf,             \* handle_deploy_failure: locals, calls made, result
    wjc,             \* wait_for_job_completion: arguments, locals, result
    cli              \* the command line run: options, position, calls made

vars == <<remote, max_retries, project_info, default_branch, clock, pc,
          rt, log, an, cb, mr, gen, fl, mon, hdf, wjc, cli>>

None == "None"

\* the elements of a sequence
RangeOf(seq) == {seq[i] : i \in 1..Len(seq)}

\* The element of a one-element set.  Only({e(x) : x \in {v}}) is e(v) with
\* v evaluated once.
Only(S) == CHOOSE v \in S : TRUE

----------------------------------------------------------------------------
(* Program constants *)

\* GitLabHandler.__init__(..., timeout=30, max_retries=3)
DefaultMaxRetries == 3
RequestTimeout == 30
\* wait_time = (attempt + 1) * 2
BackoffUnit == 2
\* PipelineMonitor.__init__(..., check_interval=30)
CheckInterval == 30

(* Bounds of the model *)

\* max_retries of the client under test ranges over 1..MaxRetriesBound
MaxRetriesBound == 3
\* max_wait_time ranges over {0, ShortWait, LongWait}
ShortWait == 20
LongWait == 50
\* a pipeline holds at most MaxJobs jobs
MaxJobs == 2

----------------------------------------------------------------------------
(* The repository host *)

FeatureBranch == "feature/pipeops"
BranchNames == {"main", "develop", FeatureBranch}

Faults == {"ok", "conn", "lost", "e500"}
\* a request that changes nothing on the host: a lost response is a "conn"
ReadFaults == {"ok", "conn", "e500"}

HasBranch(rem, name) == \E b \in rem.branches : b.name = name
HeadOf(rem, name) == (CHOOSE b \in rem.branches : b.name = name).head

OpenMRs(rem, source) == {m \in rem.mrs : m.source = source}

\* the blob paths of a branch's tree
FilesOf(rem, name) == {f[2] : f \in {g \in rem.files : g[1] = name}}

\* the host takes a commit whose every "create" names a new path and whose
\* every "update" names a path of the branch
Applies(rem, branch, actions) ==
    /\ HasBranch(rem, branch)
    /\ \A i \in 1..Len(actions) :
          IF actions[i].action = "create"
          THEN actions[i].file_path \notin FilesOf(rem, branch)
          ELSE actions[i].file_path \in FilesOf(rem, branch)

NoBody == [none |-> TRUE]

Reply(status, body, rem) == [status |-> status, body |-> body, rem |-> rem]

\* What the host does with one request that reaches it.
Serve(rem, rq) ==
    CASE rq.op = "GET project" ->
            Reply(200, [default_branch |-> rem.default], rem)
      [] rq.op = "GET branches" ->
            Reply(200, {b.name : b \in rem.branches}, rem)
      [] rq.op = "GET branch" ->
            IF HasBranch(rem, rq.a)
            THEN Reply(200, [name |-> rq.a, commit |-> HeadOf(rem, rq.a)], rem)
            ELSE Reply(404, NoBody, rem)
      [] rq.op = "DELETE branch" ->
            IF HasBranch(rem, rq.a)
            THEN Reply(204, NoBody,
                       [rem EXCEPT !.branches = {b \in @ : b.name # rq.a},
                                   !.files = {f \in @ : f[1] # rq.a}])
            ELSE Reply(404, NoBody, rem)
      [] rq.op = "POST branch" ->
            IF HasBranch(rem, rq.a) \/ ~HasBranch(rem, rq.b)
            THEN Reply(400, NoBody, rem)
            ELSE Reply(201, [name |-> rq.a, commit |-> HeadOf(rem, rq.b)],
                       [rem EXCEPT !.branches =
                            @ \cup {[name |-> rq.a, head |-> HeadOf(rem, rq.b)]},
                                   !.files =
                            @ \cup {<<rq.a, f>> : f \in FilesOf(rem, rq.b)}])
      [] rq.op = "POST mr" ->
            IF OpenMRs(rem, rq.a) # {}
            THEN Reply(409, NoBody, rem)
            ELSE IF ~HasBranch(rem, rq.a) \/ ~HasBranch(rem, rq.b)
            THEN Reply(400, NoBody, rem)
            ELSE LET new == [iid |-> Cardinality(rem.mrs) + 1,
                             source |-> rq.a, target |-> rq.b]
                 IN  Reply(201, new, [rem EXCEPT !.mrs = @ \cup {new}])
      [] rq.op = "GET mrs" ->
            Reply(200, OpenMRs(rem, rq.a), rem)
      [] rq.op = "GET tree" ->
            IF HasBranch(rem, rq.a)
            THEN Reply(200, FilesOf(rem, rq.a), rem)
            ELSE Reply(404, NoBody, rem)
      [] rq.op = "POST commit" ->
            IF Applies(rem, rq.a, rq.b)
            THEN Reply(201, [id |-> Len(rem.commits) + 1],
                       [rem EXCEPT !.commits = Append(@, [branch |-> rq.a,
                                                          actions |-> rq.b]),
                                   !.files = @ \cup {<<rq.a, rq.b[i].file_path>> :
                                                       i \in 1..Len(rq.b)}])
            ELSE Reply(400, NoBody, rem)
      [] rq.op = "GET variables" ->
            Reply(200, rem.variables, rem)
      [] rq.op = "POST variable" ->
            IF rq.a \in rem.variables
            THEN Reply(400, NoBody, rem)
            ELSE Reply(201, NoBody, [rem EXCEPT !.variables = @ \cup {rq.a}])
      [] rq.op = "GET pipelines" ->
            Reply(200, IF rem.pstatus = "none" THEN <<>>
                       ELSE <<[id |-> 1, status |-> rem.pstatus]>>, rem)
      [] rq.op = "GET pipeline" ->
            Reply(200, [id |-> rq.a, status |-> rem.pstatus], rem)
      [] rq.op = "GET jobs" ->
            Reply(200, rem.jobs, rem)
      [] rq.op = "POST retry" ->
            IF \E i \in 1..Len(rem.jobs) : rem.jobs[i].id = rq.a
            THEN Reply(201, NoBody, [rem EXCEPT !.retried = Append(@, rq.a)])
            ELSE Reply(404, NoBody, rem)

Request(op, a, b) == [op |-> op, a |-> a, b |-> b]

----------------------------------------------------------------------------
(* GitLabHandler._make_request and GitLabHandler._simple_retry *)

\* One invocation of _make_request: the response, or the exception raised
\* (http = TRUE for requests.exceptions.HTTPError, with its status code).
\* lat is the time the attempt takes.
_make_request(rem, rq, fault, lat) ==
    CASE fault = "conn" ->
            [raised |-> TRUE, http |-> FALSE, status |-> 0, body |-> NoBody,
             rem |-> rem, lat |-> lat]
      [] fault = "e500" ->
            [raised |-> TRUE, http |-> TRUE, status |-> 500, body |-> NoBody,
             rem |-> rem, lat |-> lat]
      [] fault = "lost" ->
            [raised |-> TRUE, http |-> FALSE, status |-> 0, body |-> NoBody,
             rem |-> Serve(rem, rq).rem, lat |-> lat]
      [] fault = "ok" ->
            Only({ [raised |-> s.status >= 400, http |-> s.status >= 400,
                    status |-> s.status, body |-> s.body, rem |-> s.rem,
                    lat |-> lat] : s \in {Serve(rem, rq)} })

\* a loop that stops one iteration early
InRangeShort(attempt, max) == attempt < max - 1

\* for attempt in range(self.max_retries)
InRange(attempt, max) == attempt < max

\* if attempt < self.max_retries - 1: sleep before the next attempt
SleepsAfter(attempt, max) == attempt < max - 1

\* a backoff that does not grow
wait_timeFlat(attempt) == BackoffUnit

\* wait_time = (attempt + 1) * 2
wait_time(attempt) == (attempt + 1) * BackoffUnit

\* a wrapper that gives up at once on a client error (4xx)
RetryCatchesTransient(r) == r.raised /\ ~(r.http /\ r.status \in 400..499)

\* except Exception as e (the handler inside the loop of _simple_retry)
RetryCatches(r) == r.raised

\* The loop of _simple_retry from iteration `attempt` on.  st holds the
\* host, last_error, the log of the invocations of func (trace), the log of
\* the time.sleep calls (sleeps) and the time spent (dur).
RECURSIVE RetryLoop(_, _, _, _, _, _)
RetryLoop(attempt, max, rq, faults, lats, st) ==
    IF ~InRange(attempt, max)
    THEN \* raise last_error
         [raised |-> TRUE, http |-> st.last_error.http,
          status |-> st.last_error.status, body |-> NoBody, rem |-> st.rem,
          trace |-> st.trace, sleeps |-> st.sleeps, dur |-> st.dur]
    ELSE Only({
           IF ~r.raised
           THEN \* return func(*args, **kwargs)
                [raised |-> FALSE, http |-> FALSE, status |-> r.status,
                 body |-> r.body, rem |-> r.rem,
                 trace |-> Append(st.trace, [raised |-> FALSE, http |-> FALSE,
                                             status |-> r.status]),
                 sleeps |-> st.sleeps, dur |-> st.dur + r.lat]
           ELSE IF ~RetryCatches(r)
           THEN \* the error leaves the loop at once
                [raised |-> TRUE, http |-> r.http, status |-> r.status,
                 body |-> NoBody, rem |-> r.rem,
                 trace |-> Append(st.trace, [raised |-> TRUE, http |-> r.http,
                                             status |-> r.status]),
                 sleeps |-> st.sleeps, dur |-> st.dur + r.lat]
           ELSE Only({ RetryLoop(attempt + 1, max, rq, faults, lats, next) :
                  next \in {[rem |-> r.rem,
                             last_error |-> [http |-> r.http, status |-> r.status],
                             trace |-> Append(st.trace,
                                              [raised |-> TRUE, http |-> r.http,
                                               status |-> r.status]),
                             sleeps |-> IF SleepsAfter(attempt, max)
                                        THEN Append(st.sleeps, wait_time(attempt))
                                        ELSE st.sleeps,
                             dur |-> IF SleepsAfter(attempt, max)
                                     THEN st.dur + r.lat + wait_time(attempt)
                                     ELSE st.dur + r.lat]} })
           : r \in {_make_request(st.rem, rq, faults[attempt + 1],
                                  lats[attempt + 1])} })

\* last_error = None before the first attempt
NoError == [http |-> FALSE, status |-> -1]

_simple_retry(max, rem, rq, faults, lats) ==
    RetryLoop(0, max, rq, faults, lats,
              [rem |-> rem, last_error |-> NoError, trace |-> <<>>,
               sleeps |-> <<>>, dur |-> 0])

\* every attempt answered at once: for callers that never read the clock
NoLatency(max) == [i \in 1..max |-> 0]

FaultSeqs(max, set) == [1..max -> set]

\* a call whose timing nobody observes
Call(max, rem, rq, faults) == _simple_retry(max, rem, rq, faults, NoLatency(max))

----------------------------------------------------------------------------
(* The single-request methods of GitLabHandler.  Each takes the host and   *)
(* the fate of its attempts and yields its return value and the host after.*)

Client == [project_info |-> project_info, default_branch |-> default_branch]

\* a lookup that asks the host every time and keeps the latest answer
get_projectRefetch(cl, max, rem, faults) ==
    Only({ IF r.raised
           THEN [value |-> cl.project_info, cl |-> cl]
           ELSE [value |-> r.body.default_branch,
                 cl |-> [cl EXCEPT !.project_info = r.body.default_branch]]
           : r \in {Call(max, rem, Request("GET project", None, None), faults)} })

\* get_project: the cached metadata, fetched on first use.  The metadata is
\* modelled by the one field the client reads, its default_branch.
get_project(cl, max, rem, faults) ==
    IF cl.project_info = None
    THEN Only({ IF r.raised
                THEN [value |-> None, cl |-> cl]
                ELSE [value |-> r.body.default_branch,
                      cl |-> [cl EXCEPT !.project_info = r.body.default_branch]]
                : r \in {Call(max, rem, Request("GET project", None, None),
                              faults)} })
    ELSE [value |-> cl.project_info, cl |-> cl]

\* the literal used when the metadata cannot be fetched
FallbackBranch == "main"

\* a lookup that keeps nothing: the name is worked out again on every call
get_default_branchUncached(cl, max, rem, faults) ==
    Only({ [value |-> IF p.value # None THEN p.value ELSE FallbackBranch,
            cl |-> p.cl]
           : p \in {get_project(cl, max, rem, faults)} })

\* get_default_branch: the memoized name, worked out on first use
get_default_branch(cl, max, rem, faults) ==
    IF cl.default_branch = None
    THEN Only({ IF p.value # None
                THEN [value |-> p.value,
                      cl |-> [p.cl EXCEPT !.default_branch = p.value]]
                ELSE [value |-> FallbackBranch,
                      cl |-> [p.cl EXCEPT !.default_branch = FallbackBranch]]
                : p \in {get_project(cl, max, rem, faults)} })
    ELSE [value |-> cl.default_branch, cl |-> cl]

\* branch_exists: True on a response, False on a 404 and on every other error
branch_exists(max, rem, branch_name, faults) ==
    ~Call(max, rem, Request("GET branch", branch_name, None), faults).raised

\* get_branch_info: whether the branch details came back (None otherwise)
get_branch_info(max, rem, branch_name, faults) ==
    ~Call(max, rem, Request("GET branch", branch_name, None), faults).raised

\* a listing that answers a failed fetch with no branch at all
get_available_branchesEmpty(cl, max, rem, faults, dfaults) ==
    Only({ [value |-> IF r.raised THEN {} ELSE r.body, cl |-> cl]
           : r \in {Call(max, rem, Request("GET branches", None, None), faults)} })

\* get_available_branches: the names, or [default branch] when the fetch fails
get_available_branches(cl, max, rem, faults, dfaults) ==
    Only({ IF r.raised
           THEN Only({ [value |-> {d.value}, cl |-> d.cl] :
                       d \in {get_default_branch(cl, max, rem, dfaults)} })
           ELSE [value |-> r.body, cl |-> cl]
           : r \in {Call(max, rem, Request("GET branches", None, None), faults)} })

\* _find_existing_mr: mrs[0] of the open merge requests of the source branch
\* (the host lists the newest first), None (iid 0) when there is none or the
\* request fails
_find_existing_mr(max, rem, source_branch, faults) ==
    Only({ IF r.raised
           THEN [answered |-> FALSE, iid |-> 0]
           ELSE IF r.body = {}
           THEN [answered |-> TRUE, iid |-> 0]
           ELSE [answered |-> TRUE,
                 iid |-> CHOOSE i \in {m.iid : m \in r.body} :
                            \A m \in r.body : m.iid <= i]
           : r \in {Call(max, rem, Request("GET mrs", source_branch, None),
                         faults)} })

\* get_latest_pipeline_with_id: pipelines[0], None when the branch has no
\* pipeline and on any error
get_latest_pipeline_with_id(max, rem, ref, faults) ==
    Only({ [ok |-> ~r.raised,
            found |-> ~r.raised /\ r.body # <<>>,
            pipeline |-> IF r.raised \/ r.body = <<>> THEN None ELSE r.body[1]]
           : r \in {Call(max, rem, Request("GET pipelines", ref, None), faults)} })

\* get_pipeline_by_id: the pipeline record, None (ok = FALSE) on any error
get_pipeline_by_id(max, rem, pipeline_id, faults, lats) ==
    Only({ [ok |-> ~r.raised,
            status |-> IF r.raised THEN None ELSE r.body.status,
            dur |-> r.dur]
           : r \in {_simple_retry(max, rem, Request("GET pipeline", pipeline_id, None),
                                  faults, lats)} })

\* get_pipeline_jobs: the job list, [] on any error
get_pipeline_jobs(max, rem, pipeline_id, faults, lats) ==
    Only({ [ok |-> ~r.raised, jobs |-> IF r.raised THEN <<>> ELSE r.body,
            dur |-> r.dur]
           : r \in {_simple_retry(max, rem, Request("GET jobs", pipeline_id, None),
                                  faults, lats)} })

\* retry_job: True when the retry request was answered, False on any error
retry_job(max, rem, job_id, faults) ==
    Only({ [ok |-> ~r.raised, rem |-> r.rem]
           : r \in {Call(max, rem, Request("POST retry", job_id, None), faults)} })

\* a commit that takes the branch back when it fails
commit_filesRollback(max, rem, branch_name, actions, faults) ==
    Only({ IF r.raised
           THEN [id |-> 0,
                 rem |-> Serve(r.rem, Request("DELETE branch", branch_name, None)).rem]
           ELSE [id |-> r.body.id, rem |-> r.rem]
           : r \in {Call(max, rem, Request("POST commit", branch_name, actions),
                         faults)} })

\* commit_files: the commit record's id, None (0) on any error
commit_files(max, rem, branch_name, actions, faults) ==
    Only({ [id |-> IF r.raised THEN 0 ELSE r.body.id, rem |-> r.rem]
           : r \in {Call(max, rem, Request("POST commit", branch_name, actions),
                         faults)} })

delete_branch(max, rem, branch_name, faults) ==
    Only({ [ok |-> ~r.raised, rem |-> r.rem] :
             r \in {Call(max, rem, Request("DELETE branch", branch_name, None),
                         faults)} })

----------------------------------------------------------------------------
(* States of the components that are not running *)

RemoteOf(default, branches, mrs) ==
    [default |-> default, branches |-> branches, mrs |-> mrs,
     files |-> {}, commits |-> <<>>,
     pstatus |-> "none", jobs |-> <<>>, retried |-> <<>>, variables |-> {}]

\* a branch that was on the host before the run points at its own commit
Own(name) == [name |-> name, head |-> name]

RtIdle == [state |-> "idle"]

CbCall(branch_name, ref, caller) ==
    [name |-> branch_name, ref |-> ref, requested |-> ref, caller |-> caller,
     depth |-> 0,          \* recursive calls made so far
     existed |-> FALSE,    \* the branch was on the host when this call checked
     asked |-> "none",     \* the user's answer in this call: delete, abort
     confirmed |-> FALSE,  \* some call of the run got the answer "delete"
     deleted |-> FALSE,    \* delete_branch returned True in this call
     posted |-> FALSE,     \* this call issued the creation request
     fellback |-> FALSE,   \* the creation was retried against the default branch
     creates |-> <<>>,     \* the creation requests of the run: ref, how it ended,
                           \* and whether the ref alone was at fault
     result |-> FALSE]
CbIdle == CbCall(None, None, "none")

MrCall(source_branch, target_branch, caller) ==
    [source |-> source_branch, target |-> target_branch, caller |-> caller,
     outcome |-> "pending",  \* returned (a record), none (None), raised
     iid |-> 0,              \* the merge request returned
     conflict |-> FALSE,     \* some attempt of the creation was answered 409
     final409 |-> FALSE,     \* the creation raised HTTPError 409
     had_open |-> FALSE,     \* the source had an open merge request by then
     lookups |-> 0,          \* calls of _find_existing_mr
     looked_up |-> FALSE,    \* the lookup of open merge requests answered
     tries |-> 0,            \* the attempts the creation request took
     sleeps |-> <<>>,        \* the backoff sleeps between them
     available |-> {},       \* available_branches, when the target is picked
     default |-> None]       \* default_branch, when the target is picked
MrIdle == MrCall(None, None, "none")
\* project_data as the generator reads it, and the pipeline type's entry of
\* the configuration: the files to create and the templates that are missing
NoProjectData == [available_branches |-> <<>>, analysis_branch |-> None,
                  default_branch |-> "main"]
NoConfig == [type_known |-> FALSE, files_to_create |-> <<>>, missing |-> {}]

GenCall(project_data, config) ==
    [project_data |-> project_data, config |-> config,
     new_branch |-> None, source_branch |-> None, target_branch |-> None,
     i |-> 0,                   \* the place in files_to_create
     actions |-> <<>>,
     commit |-> 0,              \* commit_result's id, 0 for None
     merge_request |-> 0,       \* mr_result's iid, 0 for None
     calls |-> <<>>,            \* the client methods called, in order
     failed |-> "none",         \* the step that failed
     result |-> "pending"]      \* "None", or "success" for the result record
GenIdle == GenCall(NoProjectData, NoConfig)

FlCall(ref, caller) ==
    [ref |-> ref, requested |-> ref, caller |-> caller,
     depth |-> 0,               \* 1 inside the recursive call
     queue |-> <<>>,            \* the common branches still to try
     asked |-> <<>>,            \* the refs whose tree was requested
     outcomes |-> <<>>,         \* how each of these requests ended
     default |-> None,          \* what get_default_branch() returned
     available |-> {},          \* what get_available_branches() returned
     tries |-> <<>>,            \* the attempts each of these requests took
     sleeps |-> <<>>,           \* the backoff sleeps within each of them
     probing |-> FALSE,         \* the loop over the common branches was entered
     answered_by |-> None,      \* the ref whose tree is returned
     result |-> {}]
FlIdle == FlCall(None, "none")

\* project_data as analyze() initialises it, and the locals of the run
AnCall(state) ==
    [state |-> state,            \* idle, running, returned, raised
     default_branch |-> "main",
     available_branches |-> {},
     has_pipeline |-> FALSE,
     files |-> {},
     analysis_branch |-> "main",
     language |-> "unknown",
     type |-> "unknown",
     queue |-> <<>>,             \* branches_to_check still to visit
     probes |-> <<>>,            \* the branches whose listing was asked for
     listed |-> <<>>,            \* what each of these listings returned
     primary |-> None,           \* _get_primary_branch_for_analysis
     failed |-> {}]              \* the direct requests that failed
AnIdle == AnCall("idle")
NoAnalysis == [error |-> FALSE, failed_jobs |-> <<>>, total_jobs |-> 0]

MonCall(pipeline_id, max_wait_time) ==
    [pipeline_id |-> pipeline_id, max_wait_time |-> max_wait_time,
     start_time |-> 0, checks |-> 0,
     status |-> "none",         \* result["status"]
     duration |-> 0,            \* result["duration"]
     has_analysis |-> FALSE,    \* "failure_analysis" in result
     analysis |-> NoAnalysis,   \* result["failure_analysis"]
     seen |-> {},               \* the statuses the polls observed
     fetch_failed |-> FALSE,    \* get_pipeline_by_id returned None
     last_check |-> 0,          \* elapsed time at the last loop test that passed
     poll_dur |-> 0,            \* time spent in the last pipeline fetch
     analysis_dur |-> 0]        \* time spent fetching the jobs for the analysis
MonIdle == MonCall(0, 0)
HdfCall(pipeline_id) ==
    [pipeline_id |-> pipeline_id,
     fetch_ok |-> FALSE,        \* the job request was answered
     jobs |-> <<>>,             \* what get_pipeline_jobs returned
     deploy_job |-> 0,          \* deploy_job['id'], 0 for None
     cleanup_success |-> FALSE,
     events |-> <<>>,           \* the collaborator calls made, in order
     retry_calls |-> <<>>,      \* the job ids retry_job was called with
     retry_success |-> FALSE,
     result |-> None]
HdfIdle == HdfCall(0)
WjcCall(pipeline_id, job_name, timeout) ==
    [pipeline_id |-> pipeline_id, job_name |-> job_name, timeout |-> timeout,
     start_time |-> 0,
     polls |-> 0,               \* the job requests made
     fetch_ok |-> TRUE,         \* the last job request was answered
     status |-> "none",         \* "error" for {"error": ...}, else result["status"]
     duration |-> 0,            \* result["duration"]
     job_info |-> 0]            \* result["job_info"]["id"], 0 when there is none
WjcIdle == WjcCall(0, None, 0)
CliCall(cmd) ==
    [cmd |-> cmd,               \* "monitor": monitor_merge_request_pipeline,
                                \* "init": the init command
     dry_run |-> FALSE,         \* --dry-run
     no_monitor |-> FALSE,      \* --no-monitor
     has_openshift |-> FALSE,   \* HAS_OPENSHIFT
     outcome |-> "running",     \* returned, stopped (interrupt caught at the
                                \* top), error, escaped
     interrupted |-> FALSE,     \* an interrupt was delivered
     site |-> None,             \* what was running when it was delivered
     pipeline_id |-> 0,         \* pipeline["id"]
     status |-> "none",         \* result["status"]
     failed_jobs |-> <<>>,      \* failure_analysis["failed_jobs"]
     credentials |-> {},        \* the keys of all_vars
     confirm |-> <<>>,          \* the answer at the recovery prompt, stripped
                                \* and lowered
     deploy_job |-> 0,          \* deploy_job["id"], 0 for None
     cleanup_success |-> FALSE,
     events |-> <<>>,           \* the collaborator calls made, in order
     retry_calls |-> <<>>,      \* the job ids retry_job was called with
     project_data |-> NoProjectData,
     config |-> NoConfig,       \* config_data['pipelines'][pipeline_type]
     missing |-> {},            \* missing_vars
     to_add |-> <<>>,           \* vars_to_add still to post
     added |-> <<>>,            \* the variables add_vars posted
     generated |-> FALSE,       \* generate_and_commit was called
     result |-> "pending",      \* result of step 5: "None" or "success"
     mr_url |-> FALSE,          \* the result names a merge request
     monitoring |-> FALSE]      \* monitor_merge_request_pipeline was called
CliIdle == CliCall("idle")

FreshClient ==
    /\ project_info = None
    /\ default_branch = None

----------------------------------------------------------------------------
(* SpecRetry: one call of _simple_retry *)

RetryRequests ==
    { Request("GET branch", FeatureBranch, None),
      Request("DELETE branch", FeatureBranch, None),
      Request("POST branch", FeatureBranch, "main") }

RetryRemotes ==
    { RemoteOf("main", {Own("main")} \cup extra, {}) :
        extra \in { {}, {[name |-> FeatureBranch, head |-> "old"]} } }

InitRetry ==
    /\ remote \in RetryRemotes
    /\ max_retries \in 1..MaxRetriesBound
    /\ FreshClient
    /\ clock = 0
    /\ wjc = WjcIdle /\ cli = CliIdle
    /\ an = AnIdle
    /\ pc = "retry"
    /\ \E rq \in RetryRequests : \E faults \in FaultSeqs(max_retries, Faults) :
          rt = [state |-> "ready", rq |-> rq, faults |-> faults]
    /\ log = <<>>
    /\ cb = CbIdle /\ mr = MrIdle /\ gen = GenIdle /\ fl = FlIdle /\ mon = MonIdle /\ hdf = HdfIdle

SimpleRetryCall ==
    /\ pc = "retry"
    /\ \E r \in {Call(max_retries, remote, rt.rq, rt.faults)} :
           /\ rt' = [state |-> "done", rq |-> rt.rq, faults |-> rt.faults,
                     raised |-> r.raised, http |-> r.http, status |-> r.status,
                     trace |-> r.trace, sleeps |-> r.sleeps]
           /\ remote' = r.rem
    /\ pc' = "done"
    /\ UNCHANGED <<max_retries, project_info, default_branch, clock,
                   log, an, cb, mr, gen, fl, mon, hdf, wjc, cli>>

NextRetry == SimpleRetryCall

SpecRetry == InitRetry /\ [][NextRetry]_vars

\* C1: _simple_retry invokes the call at most max_retries times; it returns
\* the response of the first attempt that succeeds and makes no attempt after
\* it; when every attempt fails it has made max_retries attempts and raises
\* the error of the last one.
C1_RetryBounded ==
    rt.state = "done" =>
        LET n == Len(rt.trace)
        IN  /\ n >= 1 /\ n <= max_retries
            /\ \A i \in 1..(n - 1) : rt.trace[i].raised
            /\ ~rt.raised => /\ ~rt.trace[n].raised
                             /\ rt.status = rt.trace[n].status
            /\ rt.raised => /\ n = max_retries
                            /\ rt.trace[n].raised
                            /\ rt.http = rt.trace[n].http
                            /\ rt.status = rt.trace[n].status

\* a call that failed once, succeeded on its second attempt and left its
\* third attempt unused
C1_Witness ==
    /\ rt.state = "done"
    /\ max_retries = 3
    /\ ~rt.raised
    /\ Len(rt.trace) = 2
    /\ rt.trace[1].raised

\* the attempts of the call that failed
FailedAttempts == {i \in 1..Len(rt.trace) : rt.trace[i].raised}

\* C15 (as stated): every failed attempt is followed by a sleep, the i-th of
\* i times 2 seconds.
C15_SleepAfterEveryFailure ==
    rt.state = "done" =>
        /\ Len(rt.sleeps) = Cardinality(FailedAttempts)
        /\ \A i \in 1..Len(rt.sleeps) : rt.sleeps[i] = i * 2

\* C15 (amended): every failed attempt but the max_retries-th is followed by a
\* sleep, the i-th of i times 2 seconds (2, 4, 6, ...); after the last
\* attempt allowed the error is raised without a sleep.
C15_SleepBetweenAttempts ==
    rt.state = "done" =>
        /\ Len(rt.sleeps) = Cardinality(FailedAttempts \ {max_retries})
        /\ Len(rt.sleeps) = Len(rt.trace) - 1
        /\ \A i \in 1..Len(rt.sleeps) : rt.sleeps[i] = i * 2

\* three failed attempts, two sleeps
C15_Witness ==
    /\ rt.state = "done"
    /\ max_retries = 3
    /\ rt.raised
    /\ Cardinality(FailedAttempts) = 3
    /\ rt.sleeps = <<2, 4>>

----------------------------------------------------------------------------
(* GitLabHandler.create_branch *)

\* where create_branch hands its result
CbReturnPc == IF cb.caller = "gen" THEN "gen_branch_done" ELSE "done"

CbReturn(result) ==
    /\ cb' = [cb EXCEPT !.result = result]
    /\ pc' = CbReturnPc

\* if ref is None: ref = self.get_default_branch()
CbDefaultRef ==
    /\ pc = "cb_enter"
    /\ \E faults \in FaultSeqs(max_retries, ReadFaults) :
         \E d \in {IF cb.ref = None
                   THEN get_default_branch(Client, max_retries, remote, faults)
                   ELSE [value |-> cb.ref, cl |-> Client]} :
             /\ cb' = [cb EXCEPT !.ref = d.value,
                                 !.requested = IF cb.depth = 0 THEN d.value ELSE @]
             /\ project_info' = d.cl.project_info
             /\ default_branch' = d.cl.default_branch
    /\ pc' = "cb_exists"
    /\ UNCHANGED <<remote, max_retries, clock, rt, an, log, mr, gen, fl, mon, hdf, wjc, cli>>

\* if self.branch_exists(branch_name): branch_info = self.get_branch_info(...)
CbBranchExists ==
    /\ pc = "cb_exists"
    /\ \E faults \in FaultSeqs(max_retries, ReadFaults) :
         /\ cb' = [cb EXCEPT !.existed = HasBranch(remote, cb.name)]
         /\ pc' = IF branch_exists(max_retries, remote, cb.name, faults)
                  THEN "cb_info" ELSE "cb_post"
    /\ UNCHANGED <<remote, max_retries, project_info, default_branch, clock,
                   rt, an, log, mr, gen, fl, mon, hdf, wjc, cli>>

CbBranchInfo ==
    /\ pc = "cb_info"
    /\ \E faults \in FaultSeqs(max_retries, ReadFaults) :
         pc' = IF get_branch_info(max_retries, remote, cb.name, faults)
               THEN "cb_choice" ELSE "cb_confirm"
    /\ UNCHANGED <<remote, max_retries, project_info, default_branch, clock,
                   rt, an, log, cb, mr, gen, fl, mon, hdf, wjc, cli>>

\* what the user may type at "What would you like to do? [1/2]: "
Choices == {"1", "", "2", "3"}
\* what the user may type at "Delete it and create fresh? [y/N]: " (lowered)
Confirms == {"y", "yes", "n", ""}

\* choice == '1' or choice == ''
ChoosesDelete(choice) == choice \in {"1", ""}
\* confirm in ['y', 'yes']
ConfirmsDelete(confirm) == confirm \in {"y", "yes"}

\* the user answered "delete": delete_branch, then on to the creation
CbDelete(faults) ==
    \E d \in {delete_branch(max_retries, remote, cb.name, faults)} :
        /\ remote' = d.rem
        /\ IF d.ok
           THEN /\ cb' = [cb EXCEPT !.asked = "delete", !.confirmed = TRUE,
                                    !.deleted = TRUE]
                /\ pc' = "cb_post"
           ELSE /\ cb' = [cb EXCEPT !.asked = "delete", !.confirmed = TRUE,
                                    !.result = FALSE]
                /\ pc' = CbReturnPc

\* one round of the while True loop around input("... [1/2]: ")
CbChoice ==
    /\ pc = "cb_choice"
    /\ \E choice \in Choices :
         IF ChoosesDelete(choice)
         THEN \E faults \in FaultSeqs(max_retries, Faults) : CbDelete(faults)
         ELSE IF choice = "2"
         THEN /\ cb' = [cb EXCEPT !.asked = "abort", !.result = FALSE]
              /\ pc' = CbReturnPc
              /\ UNCHANGED remote
         ELSE \* "Please choose 1 or 2": ask again
              UNCHANGED <<cb, pc, remote, wjc, cli>>
    /\ UNCHANGED <<max_retries, project_info, default_branch, clock,
                   rt, an, log, mr, gen, fl, mon, hdf, wjc, cli>>

\* the branch details could not be read: input("... [y/N]: ")
CbConfirm ==
    /\ pc = "cb_confirm"
    /\ \E confirm \in Confirms :
         IF ConfirmsDelete(confirm)
         THEN \E faults \in FaultSeqs(max_retries, Faults) : CbDelete(faults)
         ELSE /\ cb' = [cb EXCEPT !.asked = "abort", !.result = FALSE]
              /\ pc' = CbReturnPc
              /\ UNCHANGED remote
    /\ UNCHANGED <<max_retries, project_info, default_branch, clock,
                   rt, an, log, mr, gen, fl, mon, hdf, wjc, cli>>

\* a payload whose ref is hard-coded
CreatePayloadMain(branch_name, ref) == Request("POST branch", branch_name, "main")

\* payload = {"branch": branch_name, "ref": ref}
CreatePayload(branch_name, ref) == Request("POST branch", branch_name, ref)

\* how a creation request ended, as the handlers of create_branch tell it apart
CreateOutcome(r) ==
    IF ~r.raised THEN "ok" ELSE IF r.http /\ r.status = 400 THEN "400" ELSE "error"

\* a handler that tests for the wrong status
FallsBackOn404(r, ref, default) == r.http /\ r.status = 404 /\ ref # default

\* e.response.status_code == 400 and ref != default_branch
FallsBack(r, ref, default) == r.http /\ r.status = 400 /\ ref # default

\* the creation request, and on a bad reference the retry against the default
\* branch: return self.create_branch(branch_name, ref=default_branch)
CbPost ==
    /\ pc = "cb_post"
    /\ \E faults \in FaultSeqs(max_retries, Faults) :
         \E r \in {Call(max_retries, remote, CreatePayload(cb.name, cb.ref),
                        faults)} :
         \E c \in {[cb EXCEPT !.creates =
                        Append(@, [ref |-> cb.ref, outcome |-> CreateOutcome(r),
                                   tries |-> Len(r.trace), sleeps |-> r.sleeps,
                                   bad_ref |-> /\ ~HasBranch(remote, cb.ref)
                                               /\ ~HasBranch(remote, cb.name)])]} :
             /\ remote' = r.rem
             /\ IF ~r.raised
                THEN /\ cb' = [c EXCEPT !.posted = TRUE, !.result = TRUE]
                     /\ pc' = CbReturnPc
                     /\ UNCHANGED <<project_info, default_branch, wjc, cli>>
                ELSE IF r.http /\ r.status = 400
                THEN \E dfaults \in FaultSeqs(max_retries, ReadFaults) :
                       \E d \in {get_default_branch(Client, max_retries, r.rem,
                                                    dfaults)} :
                           /\ project_info' = d.cl.project_info
                           /\ default_branch' = d.cl.default_branch
                           /\ IF FallsBack(r, cb.ref, d.value)
                              THEN /\ cb' = [c EXCEPT !.ref = d.value,
                                                       !.depth = @ + 1,
                                                       !.fellback = TRUE,
                                                       !.existed = FALSE,
                                                       !.asked = "none",
                                                       !.deleted = FALSE,
                                                       !.posted = FALSE]
                                   /\ pc' = "cb_enter"
                              ELSE /\ cb' = [c EXCEPT !.posted = TRUE,
                                                      !.result = FALSE]
                                   /\ pc' = CbReturnPc
                ELSE /\ cb' = [c EXCEPT !.posted = TRUE, !.result = FALSE]
                     /\ pc' = CbReturnPc
                     /\ UNCHANGED <<project_info, default_branch, wjc, cli>>
    /\ UNCHANGED <<max_retries, clock, rt, an, log, mr, gen, fl, mon, hdf, wjc, cli>>

CreateBranch ==
    CbDefaultRef \/ CbBranchExists \/ CbBranchInfo \/ CbChoice \/ CbConfirm \/ CbPost

(* SpecBranch: one call create_branch(FeatureBranch, ref) on a fresh client *)

\* the hosts a run may meet: the default branch exists, "develop" and the
\* feature branch (left by an earlier run) may
BranchRemotes ==
    { RemoteOf(default, {Own(b) : b \in present} \cup old, {}) :
        default \in {"main", "develop"},
        present \in SUBSET {"main", "develop"},
        old \in { {}, {[name |-> FeatureBranch, head |-> "old"]} } }

InitBranch ==
    /\ remote \in {r \in BranchRemotes : HasBranch(r, r.default)}
    /\ max_retries = DefaultMaxRetries
    /\ FreshClient
    /\ clock = 0
    /\ wjc = WjcIdle /\ cli = CliIdle
    /\ an = AnIdle
    /\ pc = "cb_enter"
    /\ \E ref \in {None, "main", "develop"} : cb = CbCall(FeatureBranch, ref, "top")
    /\ rt = RtIdle /\ log = <<>> /\ mr = MrIdle /\ gen = GenIdle /\ fl = FlIdle /\ mon = MonIdle /\ hdf = HdfIdle

NextBranch == CreateBranch

SpecBranch == InitBranch /\ [][NextBranch]_vars

BranchesNamed(rem, name) == {b \in rem.branches : b.name = name}

\* C2: when the branch already exists on the host, create_branch issues the
\* creation request only after the user chose "delete" and delete_branch
\* succeeded; after an abort or a failed deletion it returns False having
\* issued no creation request.
C2_CreateOnlyAfterDelete ==
    /\ (pc = "cb_post" /\ cb.existed) => (cb.asked = "delete" /\ cb.deleted)
    /\ (pc = "done" /\ (cb.asked = "abort" \/ (cb.asked = "delete" /\ ~cb.deleted)))
          => (~cb.result /\ ~cb.posted)

\* C3 as stated: once create_branch has returned after a "delete and recreate"
\* answer, the host holds exactly one branch of that name and it points where
\* the requested ref points.
C3_OneBranchAtRequestedRef ==
    (pc = "done" /\ cb.confirmed) =>
        /\ Cardinality(BranchesNamed(remote, cb.name)) = 1
        /\ HasBranch(remote, cb.requested)
        /\ HeadOf(remote, cb.name) = HeadOf(remote, cb.requested)

\* C3 amended: once create_branch has returned True after a "delete and
\* recreate" answer, the host holds exactly one branch of that name; it points
\* where the requested ref points, or, when a creation request was refused as
\* a bad request and the ref was not the default branch, where the default
\* branch points.
C3_OneBranchAtRefOrDefault ==
    (pc = "done" /\ cb.confirmed /\ cb.result) =>
        LET origin == IF cb.fellback THEN default_branch ELSE cb.requested
        IN  /\ Cardinality(BranchesNamed(remote, cb.name)) = 1
            /\ HasBranch(remote, origin)
            /\ HeadOf(remote, cb.name) = HeadOf(remote, origin)

\* the old feature branch was replaced by one created from "develop"
C3_Witness ==
    /\ pc = "done" /\ cb.confirmed /\ cb.result /\ ~cb.fellback
    /\ cb.requested = "develop"
    /\ remote.default = "main"
    /\ HeadOf(remote, cb.name) = "develop"

\* C14: when the creation request is refused as a bad request because its ref
\* is not on the host, and the ref is not the default branch, create_branch
\* makes exactly one more creation request, against the default branch, and
\* its outcome is the result; when the ref is the default branch it returns
\* False after the one request.  No run makes a third creation request.
C14_OneFallbackToDefault ==
    /\ Len(cb.creates) <= 2
    /\ cb.depth <= 1
    /\ Len(cb.creates) = 2 =>
          /\ cb.creates[1].outcome = "400"
          /\ cb.creates[1].ref # default_branch
          /\ cb.creates[2].ref = default_branch
    /\ (pc = "done" /\ cb.creates # <<>> /\ cb.creates[1].outcome = "400"
           /\ cb.creates[1].bad_ref) =>
          IF cb.creates[1].ref # default_branch
          THEN /\ cb.fellback
               /\ Len(cb.creates) = 2
               /\ cb.result = (cb.creates[2].outcome = "ok")
          ELSE /\ ~cb.fellback
               /\ Len(cb.creates) = 1
               /\ cb.result = FALSE

\* "develop" is not on the host: the branch was made from "main" instead
C14_Witness ==
    /\ pc = "done"
    /\ Len(cb.creates) = 2
    /\ cb.creates[1].ref = "develop" /\ cb.creates[1].outcome = "400"
    /\ cb.creates[1].bad_ref
    /\ cb.creates[2].ref = "main"
    /\ cb.creates[2].outcome = "ok"
    /\ cb.result

----------------------------------------------------------------------------
(* GitLabHandler.create_merge_request *)

MrReturnPc == IF mr.caller = "gen" THEN "gen_mr_done" ELSE "done"

\* a choice that puts the default branch first
PreferredTargetDefaultFirst(available_branches, default) ==
    IF default \in available_branches THEN default
    ELSE IF "develop" \in available_branches THEN "develop"
    ELSE IF "dev" \in available_branches THEN "dev"
    ELSE default

\* preferred_targets = ["develop", "dev", default_branch]: the first one in
\* available_branches, else default_branch
PreferredTarget(available_branches, default) ==
    IF "develop" \in available_branches THEN "develop"
    ELSE IF "dev" \in available_branches THEN "dev"
    ELSE default

\* if target_branch is None: pick it from the branch list
MrTarget ==
    /\ pc = "mr_enter"
    /\ IF mr.target = None
       THEN \E faults \in FaultSeqs(max_retries, ReadFaults) :
            \E dfaults \in FaultSeqs(max_retries, ReadFaults) :
            \E a \in {get_available_branches(Client, max_retries, remote,
                                             faults, dfaults)} :
            \E d \in {get_default_branch(a.cl, max_retries, remote, dfaults)} :
              /\ mr' = [mr EXCEPT !.target = PreferredTarget(a.value, d.value),
                                   !.available = a.value,
                                   !.default = d.value]
              /\ project_info' = d.cl.project_info
              /\ default_branch' = d.cl.default_branch
       ELSE UNCHANGED <<mr, project_info, default_branch, wjc, cli>>
    /\ pc' = "mr_post"
    /\ UNCHANGED <<remote, max_retries, clock, rt, an, log, cb, gen, fl, mon, hdf, wjc, cli>>

\* a handler that tests for the wrong status
IsConflict400(r) == r.raised /\ r.http /\ r.status = 400

\* if e.response.status_code == 409
IsConflict(r) == r.raised /\ r.http /\ r.status = 409

\* the creation request
MrPost ==
    /\ pc = "mr_post"
    /\ \E faults \in FaultSeqs(max_retries, Faults) :
       \E r \in {Call(max_retries, remote,
                      Request("POST mr", mr.source, mr.target), faults)} :
         /\ remote' = r.rem
         /\ \E m \in {[mr EXCEPT
                        !.conflict = \E i \in 1..Len(r.trace) :
                                        r.trace[i].status = 409,
                        !.final409 = r.raised /\ r.http /\ r.status = 409,
                        !.tries = Len(r.trace), !.sleeps = r.sleeps,
                        !.had_open = OpenMRs(r.rem, mr.source) # {}]} :
              IF ~r.raised
              THEN /\ mr' = [m EXCEPT !.outcome = "returned", !.iid = r.body.iid]
                   /\ pc' = MrReturnPc
              ELSE IF IsConflict(r)
              THEN /\ mr' = m
                   /\ pc' = "mr_find"
              ELSE IF r.http
              THEN \* logger.error(...); raise
                   /\ mr' = [m EXCEPT !.outcome = "raised"]
                   /\ pc' = MrReturnPc
              ELSE \* except Exception: return None
                   /\ mr' = [m EXCEPT !.outcome = "none"]
                   /\ pc' = MrReturnPc
    /\ UNCHANGED <<max_retries, project_info, default_branch, clock,
                   rt, an, log, cb, gen, fl, mon, hdf, wjc, cli>>

\* existing_mr = self._find_existing_mr(source_branch): return it, or raise
MrFind ==
    /\ pc = "mr_find"
    /\ \E faults \in FaultSeqs(max_retries, ReadFaults) :
       \E f \in {_find_existing_mr(max_retries, remote, mr.source, faults)} :
         mr' = [mr EXCEPT !.looked_up = f.answered,
                          !.lookups = @ + 1,
                          !.iid = f.iid,
                          !.outcome = IF f.iid # 0 THEN "returned" ELSE "raised"]
    /\ pc' = MrReturnPc
    /\ UNCHANGED <<remote, max_retries, project_info, default_branch, clock,
                   rt, an, log, cb, gen, fl, mon, hdf, wjc, cli>>

CreateMergeRequest == MrTarget \/ MrPost \/ MrFind

(* SpecMR: one call create_merge_request(title, FeatureBranch, target) *)

\* the source branch may already have an open merge request
MrRemotes ==
    { [r EXCEPT !.mrs = open] :
        r \in {x \in BranchRemotes : HasBranch(x, x.default)} \cup
              { RemoteOf("main", {Own(b) : b \in {"main", FeatureBranch} \cup more}, {}) :
                  more \in {{"dev"}, {"dev", "develop"}} },
        open \in { {} } \cup
                 { {[iid |-> 1, source |-> FeatureBranch, target |-> t]} :
                     t \in {"main", "develop"} } }

InitMR ==
    /\ remote \in MrRemotes
    /\ max_retries = DefaultMaxRetries
    /\ FreshClient
    /\ clock = 0
    /\ wjc = WjcIdle /\ cli = CliIdle
    /\ an = AnIdle
    /\ pc = "mr_enter"
    /\ \E target \in {None, "main", "develop"} :
         mr = MrCall(FeatureBranch, target, "top")
    /\ rt = RtIdle /\ log = <<>> /\ cb = CbIdle /\ gen = GenIdle /\ fl = FlIdle /\ mon = MonIdle /\ hdf = HdfIdle

NextMR == CreateMergeRequest

SpecMR == InitMR /\ [][NextMR]_vars

\* C10 as stated: when the creation was answered with a conflict and the
\* source branch has an open merge request, create_merge_request returns that
\* merge request; the conflict never reaches the caller as a failure.
C10_ConflictReturnsExisting ==
    (pc = "done" /\ mr.conflict /\ mr.had_open) =>
        /\ mr.outcome = "returned"
        /\ \E m \in OpenMRs(remote, mr.source) : m.iid = mr.iid

\* C10 amended: when the creation request ends, after its retries, with a
\* conflict, create_merge_request looks up the open merge requests of the
\* source branch; if the lookup answers with one it returns that record, and
\* if the lookup fails or finds none the conflict error is raised to the caller.
C10_ConflictLooksUpExisting ==
    (pc = "done" /\ mr.final409) =>
      /\ mr.lookups = 1
      /\ IF mr.looked_up /\ OpenMRs(remote, mr.source) # {}
         THEN /\ mr.outcome = "returned"
              /\ \E m \in OpenMRs(remote, mr.source) : m.iid = mr.iid
         ELSE mr.outcome = "raised"

\* a conflict with the merge request opened by an earlier run, which is returned
C10_Witness ==
    /\ pc = "done" /\ mr.final409 /\ mr.looked_up
    /\ mr.outcome = "returned" /\ mr.iid = 1

\* the target was left to create_merge_request
TargetPicked == mr.default # None

\* preferred_targets, as a list
PreferredTargets == <<"develop", "dev", mr.default>>

\* C21: when create_merge_request is called without a target, the target is
\* the first of ["develop", "dev", default branch] that is in the branch list
\* get_available_branches returned, and the default branch if none is.
C21_TargetByPriority ==
    TargetPicked =>
        IF \E i \in 1..3 : PreferredTargets[i] \in mr.available
        THEN \E i \in 1..3 :
                /\ mr.target = PreferredTargets[i]
                /\ PreferredTargets[i] \in mr.available
                /\ \A j \in 1..(i - 1) : PreferredTargets[j] \notin mr.available
        ELSE mr.target = mr.default

\* the branch list holds dev and the default branch, not develop: dev is the
\* target of the merge request that was created
C21_Witness ==
    /\ pc = "done" /\ TargetPicked
    /\ mr.available = {"main", "dev", FeatureBranch} /\ mr.default = "main"
    /\ mr.target = "dev" /\ mr.outcome = "returned"
    /\ \E m \in remote.mrs : m.iid = mr.iid /\ m.target = "dev"

----------------------------------------------------------------------------
(* PipelineMonitor.monitor_pipeline and PipelineMonitor._analyze_failure *)

PipelineStatuses ==
    {"pending", "running", "success", "failed", "canceled", "skipped", "unknown"}

JobNames == {"build", "deploy"}
JobStatuses == {"failed", "success"}

\* the job lists a pipeline may hold; a job's id is its place in the list
JobLists ==
    UNION { { [i \in 1..n |-> [id |-> i, name |-> f[i].name, stage |-> f[i].name,
                               status |-> f[i].status]] :
              f \in [1..n -> [name : JobNames, status : JobStatuses]] } :
            n \in 0..MaxJobs }

\* the time one attempt may take: answered at once, or after the full timeout
Latencies == {0, RequestTimeout}

\* the longest one request may take through _simple_retry: every attempt runs
\* into the timeout, and the backoff sleeps lie between the attempts
MaxFetchTime(max) ==
    max * RequestTimeout + BackoffUnit * ((max * (max - 1)) \div 2)

\* a terminal test that forgets one status
IsFinishedNoSkipped(current_status) ==
    current_status \in {"success", "failed", "canceled"}

\* if current_status in ('success', 'failed', 'canceled', 'skipped')
IsFinished(current_status) ==
    current_status \in {"success", "failed", "canceled", "skipped"}

\* a loop test that lets one more poll start at the deadline
StillWaitingInclusive(now, start_time, max_wait_time) ==
    now - start_time <= max_wait_time

\* while time.time() - start_time < max_wait_time
StillWaiting(now, start_time, max_wait_time) == now - start_time < max_wait_time

\* a check that lets a missing record through
NoInfoNever(p) == FALSE

\* if not pipeline_info
NoInfo(p) == ~p.ok

\* an analysis after every terminal status
NeedsAnalysisAlways(current_status) == TRUE

\* if current_status == 'failed'
NeedsAnalysis(current_status) == current_status = "failed"

JobFailed(job) == job.status = "failed"

\* _analyze_failure on the job list it fetched
AnalysisOf(jobs) ==
    IF jobs = <<>>
    THEN [error |-> TRUE, failed_jobs |-> <<>>, total_jobs |-> 0]
    ELSE [error |-> FALSE, failed_jobs |-> SelectSeq(jobs, JobFailed),
          total_jobs |-> Len(jobs)]

\* where monitor_pipeline hands its result
MonReturnPc == IF cli.cmd = "monitor" THEN "mmr_result" ELSE "done"

MonReturn(result) ==
    /\ mon' = result
    /\ pc' = MonReturnPc

\* one iteration of the loop: fetch, decide, sleep
MonitorPoll ==
    /\ pc = "mon_loop"
    /\ StillWaiting(clock, mon.start_time, mon.max_wait_time)
    /\ \E now_status \in PipelineStatuses :
       \E faults \in FaultSeqs(max_retries, ReadFaults) :
       \E lats \in FaultSeqs(max_retries, Latencies) :
       \E host \in {[remote EXCEPT !.pstatus = now_status]} :
       \E p \in {get_pipeline_by_id(max_retries, host, mon.pipeline_id,
                                    faults, lats)} :
       \E m \in {[mon EXCEPT !.checks = @ + 1,
                             !.last_check = clock - mon.start_time,
                             !.poll_dur = p.dur,
                             !.fetch_failed = @ \/ ~p.ok,
                             !.seen = IF p.ok THEN @ \cup {p.status} ELSE @]} :
         /\ remote' = host
         /\ IF NoInfo(p)
            THEN /\ clock' = clock + p.dur
                 /\ MonReturn([m EXCEPT !.status = "error"])
            ELSE IF IsFinished(p.status)
            THEN /\ clock' = clock + p.dur
                 /\ mon' = [m EXCEPT !.status = p.status,
                                     !.duration = clock + p.dur - mon.start_time]
                 /\ pc' = IF NeedsAnalysis(p.status) THEN "mon_analyze"
                          ELSE MonReturnPc
            ELSE \* time.sleep(self.check_interval)
                 /\ clock' = clock + p.dur + CheckInterval
                 /\ mon' = m
                 /\ pc' = "mon_loop"
    /\ UNCHANGED <<max_retries, project_info, default_branch, rt, an, log, cb, mr, gen, fl, hdf,
                   wjc, cli>>

\* result["failure_analysis"] = self._analyze_failure(pipeline_id), the host
\* holding one of the given job lists when the jobs are fetched
MonitorAnalyzeOver(lists) ==
    /\ pc = "mon_analyze"
    /\ \E now_jobs \in lists :
       \E faults \in FaultSeqs(max_retries, ReadFaults) :
       \E lats \in FaultSeqs(max_retries, Latencies) :
       \E host \in {[remote EXCEPT !.jobs = now_jobs]} :
       \E j \in {get_pipeline_jobs(max_retries, host, mon.pipeline_id,
                                   faults, lats)} :
         /\ remote' = host
         /\ clock' = clock + j.dur
         /\ MonReturn([mon EXCEPT !.has_analysis = TRUE,
                                  !.analysis = AnalysisOf(j.jobs),
                                  !.analysis_dur = j.dur])
    /\ UNCHANGED <<max_retries, project_info, default_branch, rt, an, log, cb, mr, gen, fl, hdf,
                   wjc, cli>>

\* the loop test fails: return {"status": "timeout", ...}
MonitorTimeout ==
    /\ pc = "mon_loop"
    /\ ~StillWaiting(clock, mon.start_time, mon.max_wait_time)
    /\ MonReturn([mon EXCEPT !.status = "timeout",
                             !.duration = mon.max_wait_time])
    /\ UNCHANGED <<remote, clock, max_retries, project_info, default_branch,
                   rt, an, log, cb, mr, gen, fl, hdf, wjc, cli>>

MonitorAnalyze == MonitorAnalyzeOver(JobLists)

\* the analysis when nothing touched the pipeline's jobs meanwhile
MonitorAnalyzeAsIs == MonitorAnalyzeOver({remote.jobs})

MonitorPipeline == MonitorPoll \/ MonitorAnalyze \/ MonitorTimeout

(* SpecMon: one call monitor_pipeline(1, max_wait_time) *)

InitMon ==
    /\ remote = [RemoteOf("main", {Own("main")}, {}) EXCEPT !.pstatus = "pending"]
    /\ max_retries = DefaultMaxRetries
    /\ FreshClient
    /\ clock = 0
    /\ wjc = WjcIdle /\ cli = CliIdle
    /\ an = AnIdle
    /\ pc = "mon_loop"
    /\ \E max_wait_time \in {0, ShortWait, LongWait} : mon = MonCall(1, max_wait_time)
    /\ rt = RtIdle /\ log = <<>> /\ cb = CbIdle /\ mr = MrIdle /\ gen = GenIdle /\ fl = FlIdle /\ hdf = HdfIdle

NextMon == MonitorPipeline

SpecMon == InitMon /\ [][NextMon]_vars

(* SpecMonFair: the same call, timed.  Every request attempt ends, at the
   latest by the request timeout, and the single thread keeps running, so the
   monitor always takes its next step.  What the jobs are has no part in how
   long their fetch takes: the job list stays as the host has it. *)

NextMonFair == MonitorPoll \/ MonitorAnalyzeAsIs \/ MonitorTimeout

SpecMonFair == InitMon /\ [][NextMonFair]_vars /\ WF_vars(NextMonFair)


Elapsed == clock - mon.start_time

C7_WithinOneInterval ==
    pc = "done" => Elapsed <= mon.max_wait_time + CheckInterval

\* C7 (amended): monitor_pipeline terminates; it returns less than max_wait_time
\* plus the time of its last pipeline fetch after it started, to which a timeout
\* adds one poll interval and a failed pipeline the time of the job fetch of the
\* failure analysis; no fetch takes longer than max_retries timeouts plus the
\* backoff sleeps.
C7_TerminatesWithinFetchTime ==
    /\ <>(pc = "done")
    /\ [](pc = "done" =>
            /\ Elapsed < mon.max_wait_time + mon.poll_dur + mon.analysis_dur
                         + (IF mon.status = "timeout" THEN CheckInterval ELSE 0)
            /\ mon.poll_dur <= MaxFetchTime(max_retries)
            /\ mon.analysis_dur <= MaxFetchTime(max_retries)
            /\ mon.status # "failed" => mon.analysis_dur = 0)

C7_Witness ==
    /\ pc = "done"
    /\ mon.status = "timeout"
    /\ mon.checks >= 2
    /\ mon.poll_dur = MaxFetchTime(max_retries)
    /\ Elapsed > mon.max_wait_time + CheckInterval

\* C8: a timeout is returned only when no poll observed a terminal status, failed
\* only when a poll observed failed, and a timeout carries no failure analysis.
C8_TimeoutIsNotFailure ==
    pc = "done" =>
        /\ mon.status = "timeout" =>
              /\ mon.seen \cap {"success", "failed", "canceled", "skipped"} = {}
              /\ ~mon.has_analysis
        /\ mon.status = "failed" => "failed" \in mon.seen

C8_Witness ==
    /\ pc = "done"
    /\ mon.status = "timeout"
    /\ mon.checks >= 2
    /\ mon.seen = {"running", "unknown"}

\* C30: monitor_pipeline returns a failure_analysis when, and only when, the
\* terminal status it observed is failed, and the analysis is that of the job
\* list fetched for it after the status was seen: the failed jobs and the job
\* count of the list the host then held, or the error record when the fetch
\* gave no jobs.
C30_AnalysisIffFailed ==
    pc = "done" =>
        /\ mon.has_analysis <=> mon.status = "failed"
        /\ mon.has_analysis =>
              \/ mon.analysis = AnalysisOf(remote.jobs)
              \/ mon.analysis = AnalysisOf(<<>>)
        /\ ~mon.has_analysis => mon.analysis = NoAnalysis

\* a failed pipeline whose jobs, one failed and one not, were fetched and analysed
C30_Witness ==
    /\ pc = "done"
    /\ mon.status = "failed" /\ mon.has_analysis
    /\ ~mon.analysis.error
    /\ Len(mon.analysis.failed_jobs) = 1
    /\ mon.analysis.total_jobs = 2
    /\ mon.analysis = AnalysisOf(remote.jobs)

----------------------------------------------------------------------------
(* PipelineMonitor.handle_deploy_failure *)

\* if job.get('name') == 'deploy' and job.get('status') == 'failed'
IsFailedDeploy(job) == job.name = "deploy" /\ job.status = "failed"

\* a search without the break: the id of the last failed deploy job
LastFailedDeploy(jobs) ==
    IF \E i \in 1..Len(jobs) : IsFailedDeploy(jobs[i])
    THEN jobs[CHOOSE i \in 1..Len(jobs) :
                /\ IsFailedDeploy(jobs[i])
                /\ \A k \in (i + 1)..Len(jobs) : ~IsFailedDeploy(jobs[k])].id
    ELSE 0

\* the for loop with its break: the id of the first failed deploy job, 0 for None
FirstFailedDeploy(jobs) ==
    IF \E i \in 1..Len(jobs) : IsFailedDeploy(jobs[i])
    THEN jobs[CHOOSE i \in 1..Len(jobs) :
                /\ IsFailedDeploy(jobs[i])
                /\ \A k \in 1..(i - 1) : ~IsFailedDeploy(jobs[k])].id
    ELSE 0

\* a handler that gives up when the cleanup had issues
RetriesOnlyWhenClean(cleanup_success) == cleanup_success

\* cleanup_success only picks the log line: the retry follows either way
RetriesAfterCleanup(cleanup_success) == TRUE

HdfReturn(h, value) ==
    /\ hdf' = [h EXCEPT !.result = value]
    /\ pc' = "done"

\* jobs = self.gitlab.get_pipeline_jobs(pipeline_id) and the search for the job
HdfFindJob ==
    /\ pc = "hdf_jobs"
    /\ \E faults \in FaultSeqs(max_retries, ReadFaults) :
       \E j \in {get_pipeline_jobs(max_retries, remote, hdf.pipeline_id,
                                   faults, NoLatency(max_retries))} :
       \E h \in {[hdf EXCEPT !.fetch_ok = j.ok,
                             !.jobs = j.jobs,
                             !.deploy_job = FirstFailedDeploy(j.jobs)]} :
         IF h.deploy_job = 0
         THEN HdfReturn(h, FALSE)
         ELSE /\ hdf' = h
              /\ pc' = "hdf_cleanup"
    /\ UNCHANGED <<remote, clock, max_retries, project_info, default_branch,
                   rt, an, log, cb, mr, gen, fl, mon, wjc, cli>>

\* cleanup_success = cleanup_openshift_resources(...): the collaborator reports
\* success or failure and never raises
HdfCleanup ==
    /\ pc = "hdf_cleanup"
    /\ \E cleanup_success \in BOOLEAN :
       \E h \in {[hdf EXCEPT !.cleanup_success = cleanup_success,
                             !.events = Append(@, "cleanup")]} :
         IF RetriesAfterCleanup(cleanup_success)
         THEN /\ hdf' = h
              /\ pc' = "hdf_retry"
         ELSE HdfReturn(h, FALSE)
    /\ UNCHANGED <<remote, clock, max_retries, project_info, default_branch,
                   rt, an, log, cb, mr, gen, fl, mon, wjc, cli>>

\* retry_success = self.gitlab.retry_job(deploy_job['id'])
HdfRetry ==
    /\ pc = "hdf_retry"
    /\ \E faults \in FaultSeqs(max_retries, Faults) :
       \E r \in {retry_job(max_retries, remote, hdf.deploy_job, faults)} :
         /\ remote' = r.rem
         /\ HdfReturn([hdf EXCEPT !.events = Append(@, "retry"),
                                  !.retry_calls = Append(@, hdf.deploy_job),
                                  !.retry_success = r.ok],
                      r.ok)
    /\ UNCHANGED <<clock, max_retries, project_info, default_branch,
                   rt, an, log, cb, mr, gen, fl, mon, wjc, cli>>

HandleDeployFailure == HdfFindJob \/ HdfCleanup \/ HdfRetry

(* SpecDeploy: one call handle_deploy_failure(1, ...) *)

InitDeploy ==
    /\ \E jobs \in JobLists :
         remote = [RemoteOf("main", {Own("main")}, {}) EXCEPT !.pstatus = "failed",
                                                              !.jobs = jobs]
    /\ max_retries \in 1..MaxRetriesBound
    /\ FreshClient
    /\ clock = 0
    /\ wjc = WjcIdle /\ cli = CliIdle
    /\ an = AnIdle
    /\ pc = "hdf_jobs"
    /\ hdf = HdfCall(1)
    /\ rt = RtIdle /\ log = <<>> /\ cb = CbIdle /\ mr = MrIdle /\ gen = GenIdle /\ fl = FlIdle /\ mon = MonIdle

NextDeploy == HandleDeployFailure

SpecDeploy == InitDeploy /\ [][NextDeploy]_vars

\* the positions of the failed deploy jobs in a job list
FailedDeploys(jobs) ==
    {i \in 1..Len(jobs) : jobs[i].name = "deploy" /\ jobs[i].status = "failed"}

\* cleanup first, then one retry_job call for the given job, whose success is
\* the value returned
CleanedThenRetried(job_id) ==
    /\ hdf.events = <<"cleanup", "retry">>
    /\ hdf.retry_calls = <<job_id>>
    /\ hdf.result = hdf.retry_success

\* C9 (as stated): when the pipeline has a failed job named deploy,
\* handle_deploy_failure calls the cleanup, then retry_job once for that job
\* whatever the cleanup reported, and returns the retry's success.
C9_RetryWhenPipelineHasFailedDeploy ==
    (pc = "done" /\ FailedDeploys(remote.jobs) # {}) =>
        \E i \in FailedDeploys(remote.jobs) : CleanedThenRetried(remote.jobs[i].id)

\* C9 (amended): when the job list it fetched holds a failed job named deploy,
\* handle_deploy_failure calls the cleanup, then retry_job once for the first
\* such job whatever the cleanup reported, and returns the retry's success; when
\* the list holds none, or the fetch failed, it returns False and calls neither.
C9_RetryWhenFetchedFailedDeploy ==
    pc = "done" =>
        /\ hdf.jobs = IF hdf.fetch_ok THEN remote.jobs ELSE <<>>
        /\ IF FailedDeploys(hdf.jobs) # {}
           THEN \E i \in FailedDeploys(hdf.jobs) :
                  /\ \A k \in FailedDeploys(hdf.jobs) : i <= k
                  /\ CleanedThenRetried(hdf.jobs[i].id)
           ELSE /\ hdf.events = <<>>
                /\ hdf.retry_calls = <<>>
                /\ hdf.result = FALSE

C9_Witness ==
    /\ pc = "done"
    /\ Len(hdf.jobs) = 2
    /\ hdf.deploy_job = 2
    /\ ~hdf.cleanup_success
    /\ hdf.events = <<"cleanup", "retry">>
    /\ hdf.result = TRUE

\* C39: when the pipeline has no failed job named deploy,
\* handle_deploy_failure calls neither the cleanup nor retry_job, no job is
\* retried on the host, and it returns False; when it has several, retry_job
\* is called once, for the first of them in the job list, and no other job is
\* retried.
C39_NothingWithoutFailedDeploy ==
    pc = "done" =>
        /\ FailedDeploys(remote.jobs) = {} =>
              /\ hdf.events = <<>>
              /\ hdf.retry_calls = <<>>
              /\ remote.retried = <<>>
              /\ hdf.result = FALSE
        /\ Len(hdf.retry_calls) <= 1
        /\ \A i \in FailedDeploys(remote.jobs) :
              (\E k \in FailedDeploys(remote.jobs) : k < i) =>
                  /\ remote.jobs[i].id \notin RangeOf(hdf.retry_calls)
                  /\ remote.jobs[i].id \notin RangeOf(remote.retried)

\* two failed deploy jobs: the first was retried, the second was not
C39_Witness ==
    /\ pc = "done"
    /\ FailedDeploys(remote.jobs) = {1, 2}
    /\ hdf.events = <<"cleanup", "retry">>
    /\ hdf.retry_calls = <<remote.jobs[1].id>>
    /\ remote.retried # <<>>
    /\ hdf.result = TRUE

----------------------------------------------------------------------------
(* GitLabHandler.get_file_list *)

FlReturnPc ==
    CASE fl.caller = "gen" -> "gen_file_done"
      [] fl.caller = "an_probe" -> "an_probe_done"
      [] fl.caller = "an_files" -> "an_files_done"
      [] OTHER -> "done"

FlReturn(f, files, ref) ==
    /\ fl' = [f EXCEPT !.result = files, !.answered_by = ref]
    /\ pc' = FlReturnPc

\* except requests.exceptions.HTTPError as e: if e.response.status_code == 404
IsNotFound(r) == r.raised /\ r.http /\ r.status = 404

\* how a tree request ended, as the handlers of get_file_list tell it apart
OutcomeOf(r) ==
    IF ~r.raised THEN "ok" ELSE IF IsNotFound(r) THEN "notfound" ELSE "error"

\* the tree request for ref
FlTree ==
    /\ pc = "fl_tree"
    /\ \E faults \in FaultSeqs(max_retries, ReadFaults) :
       \E r \in {Call(max_retries, remote, Request("GET tree", fl.ref, None),
                      faults)} :
       \E f \in {[fl EXCEPT !.asked = Append(@, fl.ref),
                            !.outcomes = Append(@, OutcomeOf(r)),
                            !.tries = Append(@, Len(r.trace)),
                            !.sleeps = Append(@, r.sleeps)]} :
         IF ~r.raised
         THEN FlReturn(f, r.body, fl.ref)
         ELSE IF IsNotFound(r)
         THEN /\ fl' = f
              /\ pc' = "fl_default"
         ELSE FlReturn(f, {}, None)
    /\ UNCHANGED <<remote, max_retries, project_info, default_branch, clock,
                   rt, an, log, cb, mr, gen, mon, hdf, wjc, cli>>

\* a client that never goes back to the default branch
IsOtherBranchNever(ref, default) == FALSE

\* if ref != default_branch
IsOtherBranch(ref, default) == ref # default

\* default_branch = self.get_default_branch(); if ref != default_branch:
\* return self.get_file_list(ref=default_branch)
FlDefault ==
    /\ pc = "fl_default"
    /\ \E faults \in FaultSeqs(max_retries, ReadFaults) :
       \E d \in {get_default_branch(Client, max_retries, remote, faults)} :
         /\ project_info' = d.cl.project_info
         /\ default_branch' = d.cl.default_branch
         /\ IF IsOtherBranch(fl.ref, d.value)
            THEN /\ fl' = [fl EXCEPT !.ref = d.value, !.depth = @ + 1,
                                     !.default = d.value]
                 /\ pc' = "fl_tree"
            ELSE /\ fl' = [fl EXCEPT !.default = d.value]
                 /\ pc' = "fl_branches"
    /\ UNCHANGED <<remote, max_retries, clock, rt, an, log, cb, mr, gen, mon, hdf, wjc, cli>>

\* the same names, the other way round
CommonBranchesReversed == <<"develop", "master", "main">>

\* common_branches = ['main', 'master', 'develop']
CommonBranches == <<"main", "master", "develop">>

\* a loop that also tries the branch that was just not found
IsCandidateAgain(branch, available_branches, ref) == branch \in available_branches

\* if branch in available_branches and branch != ref
IsCandidate(branch, available_branches, ref) ==
    branch \in available_branches /\ branch # ref

\* the branches of `common` the loop requests, in order
RECURSIVE Candidates(_, _, _)
Candidates(common, available_branches, ref) ==
    IF common = <<>>
    THEN <<>>
    ELSE (IF IsCandidate(Head(common), available_branches, ref)
          THEN <<Head(common)>>
          ELSE <<>>) \o Candidates(Tail(common), available_branches, ref)

\* available_branches = self.get_available_branches() and the branches the
\* loop will try
FlBranches ==
    /\ pc = "fl_branches"
    /\ \E faults \in FaultSeqs(max_retries, ReadFaults) :
       \E a \in {get_available_branches(Client, max_retries, remote,
                                        faults, faults)} :
       \E queue \in {Candidates(CommonBranches, a.value, fl.ref)} :
         /\ project_info' = a.cl.project_info
         /\ default_branch' = a.cl.default_branch
         /\ \E f \in {[fl EXCEPT !.available = a.value, !.probing = TRUE,
                                  !.queue = queue]} :
              IF queue = <<>>
              THEN FlReturn(f, {}, None)
              ELSE /\ fl' = f
                   /\ pc' = "fl_common"
    /\ UNCHANGED <<remote, max_retries, clock, rt, an, log, cb, mr, gen, mon, hdf, wjc, cli>>

\* one turn of the loop over the common branches
FlCommon ==
    /\ pc = "fl_common"
    /\ \E faults \in FaultSeqs(max_retries, ReadFaults) :
       \E r \in {Call(max_retries, remote,
                      Request("GET tree", Head(fl.queue), None), faults)} :
       \E f \in {[fl EXCEPT !.asked = Append(@, Head(fl.queue)),
                            !.outcomes = Append(@, OutcomeOf(r)),
                            !.tries = Append(@, Len(r.trace)),
                            !.sleeps = Append(@, r.sleeps),
                            !.queue = Tail(@)]} :
         IF ~r.raised
         THEN FlReturn(f, r.body, Head(fl.queue))
         ELSE IF f.queue = <<>>
         THEN FlReturn(f, {}, None)
         ELSE /\ fl' = f
              /\ pc' = "fl_common"
    /\ UNCHANGED <<remote, max_retries, project_info, default_branch, clock,
                   rt, an, log, cb, mr, gen, mon, hdf, wjc, cli>>

GetFileList == FlTree \/ FlDefault \/ FlBranches \/ FlCommon

(* SpecFiles: one call get_file_list(ref) *)

\* the hosts of the runs: with and without a branch named main
FileRemotes ==
    { [RemoteOf("main", {Own("main"), Own("develop")}, {})
          EXCEPT !.files = {<<"main", ".gitlab-ci.yml">>, <<"develop", "Dockerfile">>}],
      [RemoteOf("develop", {Own("develop")}, {})
          EXCEPT !.files = {<<"develop", ".gitlab-ci.yml">>}],
      [RemoteOf("master", {Own("master"), Own("develop")}, {})
          EXCEPT !.files = {<<"master", ".gitlab-ci.yml">>, <<"develop", "Dockerfile">>}],
      RemoteOf("main", {}, {}) }

InitFiles ==
    /\ remote \in FileRemotes
    /\ max_retries \in 1..MaxRetriesBound
    /\ FreshClient
    /\ clock = 0
    /\ wjc = WjcIdle /\ cli = CliIdle
    /\ an = AnIdle
    /\ pc = "fl_tree"
    /\ \E ref \in BranchNames : fl = FlCall(ref, "none")
    /\ rt = RtIdle /\ log = <<>> /\ cb = CbIdle /\ mr = MrIdle /\ gen = GenIdle
    /\ mon = MonIdle /\ hdf = HdfIdle

NextFiles == GetFileList

SpecFiles == InitFiles /\ [][NextFiles]_vars

\* C11: when the tree request for a ref other than the default branch ends
\* with not-found, get_file_list returns what get_file_list returns for the
\* default branch: it asks for the default branch's tree next, once, and returns
\* that listing, the empty list when that request fails, and the outcome of
\* the probing of the common branches when the default branch is not found.
C11_FallsBackToDefaultBranch ==
    (/\ pc = "done"
     /\ fl.outcomes # <<>>
     /\ fl.outcomes[1] = "notfound"
     /\ fl.default # fl.requested) =>
        /\ fl.depth = 1
        /\ Len(fl.asked) >= 2
        /\ fl.asked[1] = fl.requested
        /\ fl.asked[2] = fl.default
        /\ fl.default = default_branch
        /\ CASE fl.outcomes[2] = "ok" ->
                    /\ Len(fl.asked) = 2
                    /\ fl.result = FilesOf(remote, fl.default)
               [] fl.outcomes[2] = "error" ->
                    /\ Len(fl.asked) = 2
                    /\ fl.result = {}
               [] fl.outcomes[2] = "notfound" ->
                    /\ fl.probing
                    /\ fl.answered_by # None =>
                          fl.result = FilesOf(remote, fl.answered_by)
                    /\ fl.answered_by = None => fl.result = {}

C11_Witness ==
    /\ pc = "done"
    /\ fl.requested = FeatureBranch
    /\ fl.outcomes = <<"notfound", "ok">>
    /\ fl.default = "develop"
    /\ fl.result = {".gitlab-ci.yml"}

\* the common branch names that are in the branch list and are not the ref
\* that was just not found
IsListed(branch) == branch \in fl.available /\ branch # fl.ref
ListedCommon == SelectSeq(<<"main", "master", "develop">>, IsListed)

\* the tree requests made by the loop over the common branches
Probes == SubSeq(fl.asked, fl.depth + 2, Len(fl.asked))
ProbeOutcomes == SubSeq(fl.outcomes, fl.depth + 2, Len(fl.outcomes))

\* C12: when the default branch itself is not found, get_file_list asks for
\* the trees of main, master, develop, in that order and only those in the
\* branch list, stops at the first request that succeeds and returns its
\* listing; when none succeeds it returns the empty list.
C12_ProbesCommonBranchesInOrder ==
    (pc = "done" /\ fl.probing) =>
        /\ fl.outcomes[fl.depth + 1] = "notfound"
        /\ fl.asked[fl.depth + 1] = fl.default
        /\ Len(Probes) <= Len(ListedCommon)
        /\ Probes = SubSeq(ListedCommon, 1, Len(Probes))
        /\ \A i \in 1..(Len(Probes) - 1) : ProbeOutcomes[i] # "ok"
        /\ IF Probes # <<>> /\ ProbeOutcomes[Len(Probes)] = "ok"
           THEN /\ fl.answered_by = Probes[Len(Probes)]
                /\ fl.result = FilesOf(remote, fl.answered_by)
           ELSE /\ Probes = ListedCommon
                /\ fl.answered_by = None
                /\ fl.result = {}

C12_Witness ==
    /\ pc = "done"
    /\ fl.probing
    /\ Probes = <<"master", "develop">>
    /\ ProbeOutcomes = <<"error", "ok">>
    /\ fl.result = {"Dockerfile"}

(* SpecFilesFair: the same call on a thread that keeps running: every request
   of the call ends (answered, refused or timed out), so the call always takes
   its next step *)
SpecFilesFair == InitFiles /\ [][NextFiles]_vars /\ WF_vars(NextFiles)

\* the branches whose tree one call may ask for: the ref, the default branch
\* and the three common names
MaxTreeRequests == 2 + Len(CommonBranches)

\* C37: get_file_list always returns, whatever fails: it calls itself at most
\* once, asks for the tree of no branch twice and makes at most max_retries
\* attempts for each of ref, the default branch, main, master and develop.
C37_TerminatesBounded ==
    /\ [](/\ fl.depth <= 1
          /\ Len(fl.asked) <= MaxTreeRequests
          /\ \A i, k \in 1..Len(fl.asked) : fl.asked[i] = fl.asked[k] => i = k
          /\ \A i \in 1..Len(fl.asked) :
                /\ fl.tries[i] >= 1 /\ fl.tries[i] <= max_retries
                /\ fl.asked[i] \in {fl.requested, fl.default} \cup RangeOf(CommonBranches)
          /\ pc = "done" => fl.result \subseteq {f[2] : f \in remote.files})
    /\ <>(pc = "done")

\* nothing is found: the ref, the default branch and a common branch were
\* each asked for max_retries times, and the empty list is returned
C37_Witness ==
    /\ pc = "done"
    /\ max_retries = 3
    /\ fl.depth = 1 /\ fl.probing
    /\ Len(fl.asked) = 3
    /\ fl.tries = <<3, 3, 3>>
    /\ fl.result = {}

----------------------------------------------------------------------------
(* PipelineGenerator.generate_and_commit *)

PipelineFile == ".gitlab-ci.yml"
Paths == {PipelineFile, "Dockerfile"}

\* a choice that never looks at the analysis branch
SourceFromDefault(project_data) ==
    IF project_data.default_branch \in RangeOf(project_data.available_branches)
    THEN project_data.default_branch
    ELSE IF project_data.available_branches # <<>>
    THEN project_data.available_branches[1]
    ELSE "main"

\* _get_best_source_branch
_get_best_source_branch(project_data) ==
    IF /\ project_data.analysis_branch # None
       /\ project_data.analysis_branch \in RangeOf(project_data.available_branches)
    THEN project_data.analysis_branch
    ELSE IF project_data.default_branch \in RangeOf(project_data.available_branches)
    THEN project_data.default_branch
    ELSE IF project_data.available_branches # <<>>
    THEN project_data.available_branches[1]
    ELSE "main"

\* a choice that takes the analysis branch only when the project lists it
TargetWhenListed(project_data) ==
    IF /\ project_data.analysis_branch \in {"develop", "dev"}
       /\ project_data.analysis_branch \in RangeOf(project_data.available_branches)
    THEN project_data.analysis_branch
    ELSE PreferredTarget(RangeOf(project_data.available_branches),
                         project_data.default_branch)

\* _get_best_target_branch
_get_best_target_branch(project_data) ==
    IF project_data.analysis_branch \in {"develop", "dev"}
    THEN project_data.analysis_branch
    ELSE PreferredTarget(RangeOf(project_data.available_branches),
                         project_data.default_branch)

\* where generate_and_commit hands its result
GenReturnPc == IF cli.cmd = "init" THEN "init_complete" ELSE "done"

GenReturnNone(g, step) ==
    /\ gen' = [g EXCEPT !.result = "None", !.failed = step]
    /\ pc' = GenReturnPc

\* the branch names, and step 1: self.gitlab.create_branch(new_branch,
\* ref=source_branch)
GenStart ==
    /\ pc = "gen_start"
    /\ \E source \in {_get_best_source_branch(gen.project_data)} :
         /\ gen' = [gen EXCEPT !.new_branch = FeatureBranch,
                               !.source_branch = source,
                               !.target_branch =
                                    _get_best_target_branch(gen.project_data),
                               !.calls = Append(@, "create_branch")]
         /\ cb' = CbCall(FeatureBranch, source, "gen")
    /\ pc' = "cb_enter"
    /\ UNCHANGED <<remote, max_retries, project_info, default_branch, clock,
                   rt, an, log, mr, fl, mon, hdf, wjc, cli>>

\* if not self.gitlab.create_branch(...): return None; then the head of
\* _create_pipeline_files
GenBranchDone ==
    /\ pc = "gen_branch_done"
    /\ IF ~cb.result
       THEN GenReturnNone(gen, "branch")
       ELSE IF ~gen.config.type_known
       THEN \* raise ValueError, caught by generate_and_commit
            GenReturnNone(gen, "actions")
       ELSE /\ gen' = [gen EXCEPT !.i = 1]
            /\ pc' = "gen_file"
    /\ UNCHANGED <<remote, max_retries, project_info, default_branch, clock,
                   rt, an, log, cb, mr, fl, mon, hdf, wjc, cli>>

\* one turn of the loop of _create_pipeline_files up to the file check, and
\* "if not actions: return None" after the loop
GenFile ==
    /\ pc = "gen_file"
    /\ IF gen.i > Len(gen.config.files_to_create)
       THEN /\ IF gen.actions = <<>>
               THEN GenReturnNone(gen, "actions")
               ELSE /\ gen' = gen
                    /\ pc' = "gen_commit"
            /\ fl' = fl
       ELSE IF gen.config.files_to_create[gen.i] \in gen.config.missing
       THEN \* raise FileNotFoundError, caught by generate_and_commit
            /\ GenReturnNone(gen, "actions")
            /\ fl' = fl
       ELSE \* self.gitlab.get_file_list(ref=branch_name)
            /\ gen' = [gen EXCEPT !.calls = Append(@, "get_file_list")]
            /\ fl' = FlCall(gen.source_branch, "gen")
            /\ pc' = "fl_tree"
    /\ UNCHANGED <<remote, max_retries, project_info, default_branch, clock,
                   rt, an, log, cb, mr, mon, hdf, wjc, cli>>

\* action_type = "update" if file_exists else "create"
ActionFor(file_name, files_in_branch) ==
    [action |-> IF file_name \in files_in_branch THEN "update" ELSE "create",
     file_path |-> file_name]

GenFileDone ==
    /\ pc = "gen_file_done"
    /\ gen' = [gen EXCEPT !.actions =
                              Append(@, ActionFor(gen.config.files_to_create[gen.i],
                                                  fl.result)),
                          !.i = @ + 1]
    /\ pc' = "gen_file"
    /\ UNCHANGED <<remote, max_retries, project_info, default_branch, clock,
                   rt, an, log, cb, mr, fl, mon, hdf, wjc, cli>>

\* a generator that goes on without a commit record
CommitFailedNever(commit_result) == FALSE

\* if not commit_result
CommitFailed(commit_result) == commit_result = 0

\* step 3: commit_result = self.gitlab.commit_files(new_branch, ..., actions)
GenCommit ==
    /\ pc = "gen_commit"
    /\ \E faults \in FaultSeqs(max_retries, Faults) :
       \E c \in {commit_files(max_retries, remote, gen.new_branch, gen.actions,
                              faults)} :
       \E g \in {[gen EXCEPT !.calls = Append(@, "commit_files"),
                             !.commit = c.id]} :
         /\ remote' = c.rem
         /\ IF CommitFailed(c.id)
            THEN GenReturnNone(g, "commit")
            ELSE /\ gen' = g
                 /\ pc' = "gen_mr"
    /\ UNCHANGED <<max_retries, project_info, default_branch, clock,
                   rt, an, log, cb, mr, fl, mon, hdf, wjc, cli>>

\* step 4: mr_result = self.gitlab.create_merge_request(...)
GenMergeRequest ==
    /\ pc = "gen_mr"
    /\ gen' = [gen EXCEPT !.calls = Append(@, "create_merge_request")]
    /\ mr' = MrCall(gen.new_branch, gen.target_branch, "gen")
    /\ pc' = "mr_enter"
    /\ UNCHANGED <<remote, max_retries, project_info, default_branch, clock,
                   rt, an, log, cb, fl, mon, hdf, wjc, cli>>

\* result = {"success": True, ..., "merge_request": mr_result}; an error
\* raised by create_merge_request is caught: return None
GenMrDone ==
    /\ pc = "gen_mr_done"
    /\ IF mr.outcome = "raised"
       THEN GenReturnNone(gen, "mr")
       ELSE /\ gen' = [gen EXCEPT !.result = "success",
                                  !.merge_request =
                                      IF mr.outcome = "returned" THEN mr.iid ELSE 0]
            /\ pc' = GenReturnPc
    /\ UNCHANGED <<remote, max_retries, project_info, default_branch, clock,
                   rt, an, log, cb, mr, fl, mon, hdf, wjc, cli>>

GenerateAndCommit ==
    \/ GenStart \/ GenBranchDone \/ GenFile \/ GenFileDone
    \/ GenCommit \/ GenMergeRequest \/ GenMrDone

(* SpecGen: one call generate_and_commit(project_data, config) *)

\* the hosts of the runs: a project with one branch, one with a develop branch
\* that holds a pipeline file, and one whose feature branch is there already
GenRemotes ==
    { RemoteOf("main", {Own("main")}, {}),
      [RemoteOf("main", {Own("main"), Own("develop")}, {})
          EXCEPT !.files = {<<"develop", PipelineFile>>}],
      [RemoteOf("develop", {Own("develop"), Own(FeatureBranch)}, {})
          EXCEPT !.files = {<<"develop", PipelineFile>>}] }

\* what the analyzer reports for a host
AnalysisBranchOf(rem) == IF HasBranch(rem, "develop") THEN "develop" ELSE rem.default

\* the branch names of a host, in the order the host lists them
RECURSIVE ListedOf(_, _)
ListedOf(rem, names) ==
    IF names = <<>>
    THEN <<>>
    ELSE (IF HasBranch(rem, Head(names)) THEN <<Head(names)>> ELSE <<>>)
         \o ListedOf(rem, Tail(names))

ProjectDataOf(rem) ==
    [available_branches |-> ListedOf(rem, <<"main", "develop", FeatureBranch>>),
     analysis_branch |-> AnalysisBranchOf(rem),
     default_branch |-> rem.default]

\* the configurations of the runs
GenConfigs ==
    { [type_known |-> FALSE, files_to_create |-> <<PipelineFile>>, missing |-> {}],
      [type_known |-> TRUE, files_to_create |-> <<>>, missing |-> {}],
      [type_known |-> TRUE, files_to_create |-> <<PipelineFile>>, missing |-> {}],
      [type_known |-> TRUE, files_to_create |-> <<PipelineFile, "Dockerfile">>,
       missing |-> {}],
      [type_known |-> TRUE, files_to_create |-> <<PipelineFile, "Dockerfile">>,
       missing |-> {"Dockerfile"}] }

InitGen ==
    /\ remote \in GenRemotes
    /\ max_retries = DefaultMaxRetries
    /\ FreshClient
    /\ clock = 0
    /\ wjc = WjcIdle /\ cli = CliIdle
    /\ an = AnIdle
    /\ pc = "gen_start"
    /\ \E project_data \in {ProjectDataOf(remote), NoProjectData} :
       \E config \in GenConfigs :
         gen = GenCall(project_data, config)
    /\ rt = RtIdle /\ log = <<>> /\ cb = CbIdle /\ mr = MrIdle /\ fl = FlIdle
    /\ mon = MonIdle /\ hdf = HdfIdle

\* Inside generate_and_commit the tree of the default branch is never missing:
\* the listing is asked for after create_branch made the feature branch from the
\* source branch or, that one missing, from the default branch it had fetched.
\* The steps FlBranches and FlCommon have no part in these runs.
NextGen ==
    \/ GenerateAndCommit \/ CreateBranch \/ FlTree \/ FlDefault
    \/ CreateMergeRequest

SpecGen == InitGen /\ [][NextGen]_vars


\* the step a client call belongs to
StepOf(call) ==
    CASE call = "create_branch" -> 1
      [] call = "get_file_list" -> 2
      [] call = "commit_files" -> 3
      [] call = "create_merge_request" -> 4

Called(call) == call \in RangeOf(gen.calls)

\* C4: generate_and_commit calls commit_files only after create_branch returned
\* True and a non-empty action set was built, create_merge_request only after
\* commit_files returned a commit record, the steps in their order, and no call
\* of a later step follows a failed step.
C4_StepsInOrder ==
    /\ \A i \in 1..Len(gen.calls) : \A j \in i..Len(gen.calls) :
          StepOf(gen.calls[i]) <= StepOf(gen.calls[j])
    /\ \A i \in 1..Len(gen.calls) :
          StepOf(gen.calls[i]) # 2 =>
              \A j \in (i + 1)..Len(gen.calls) : gen.calls[j] # gen.calls[i]
    /\ Called("commit_files") =>
          /\ Called("create_branch") /\ cb.result = TRUE
          /\ gen.actions # <<>>
          /\ Len(gen.actions) = Len(gen.config.files_to_create)
    /\ Called("create_merge_request") =>
          /\ Called("commit_files")
          /\ gen.commit # 0
    /\ gen.failed = "branch" => gen.calls = <<"create_branch">> /\ cb.result = FALSE
    /\ gen.failed = "actions" =>
          ~Called("commit_files") /\ ~Called("create_merge_request")
    /\ gen.failed = "commit" =>
          gen.commit = 0 /\ ~Called("create_merge_request")
    /\ gen.failed # "none" => pc = "done" /\ gen.result = "None"

C4_Witness ==
    /\ pc = "done"
    /\ gen.calls = <<"create_branch", "get_file_list", "get_file_list",
                     "commit_files", "create_merge_request">>
    /\ gen.result = "success"
    /\ gen.commit # 0
    /\ mr.outcome = "returned"

\* C5: generate_and_commit returns a result with success = True only when
\* every step, merge-request creation included, succeeded; a failed step makes
\* it return None.
C5_SuccessOnlyWhenEveryStepSucceeded ==
    pc = "done" =>
        (gen.result = "success" <=>
            /\ cb.result = TRUE
            /\ gen.actions # <<>>
            /\ gen.commit # 0
            /\ mr.outcome = "returned")


\* C29: generate_and_commit performs no rollback: once create_branch has
\* returned True, no step of the run, failed or not, asks for a branch to be
\* deleted, and the feature branch stays on the remote as it was created.
C29_NoRollback ==
    [][ cb.result =>
            /\ cb' = cb
            /\ HasBranch(remote', FeatureBranch)
            /\ HeadOf(remote', FeatureBranch) = HeadOf(remote, FeatureBranch) ]_vars

\* the commit failed after the branch was created: None is returned and the
\* branch is still there
C29_Witness ==
    /\ pc = "done"
    /\ cb.result /\ gen.failed = "commit" /\ gen.result = "None"
    /\ HasBranch(remote, FeatureBranch)
    /\ remote.commits = <<>>

\* C13: every generated action is an update exactly when its path is on the
\* chosen source branch, and a create otherwise.
C13_UpdateIffOnSourceBranch ==
    \A i \in 1..Len(gen.actions) :
        gen.actions[i].action = "update" <=>
            gen.actions[i].file_path \in FilesOf(remote, gen.source_branch)

----------------------------------------------------------------------------
(* SpecAnalyzer: the requests of ProjectAnalyzer and EnvChecker, followed   *)
(* by one request of the client                                            *)

\* requests.get(url, headers=...) followed by res.raise_for_status(): one
\* request, sent once
requests_get(rem, rq, fault) == _make_request(rem, rq, fault, 0)

\* what one direct request leaves in the log of attempts
DirectTrace(r) == <<[raised |-> r.raised, http |-> r.http, status |-> r.status]>>

LogEntry(who, op, r, trace, value) ==
    [who |-> who, op |-> op, raised |-> r.raised, trace |-> trace,
     value |-> value]

\* ProjectAnalyzer._get_default_branch: the default branch of the metadata,
\* 'main' on any exception
AnalyzerDefaultBranch ==
    /\ pc = "an_default"
    /\ \E fault \in ReadFaults :
       \E r \in {requests_get(remote, Request("GET project", None, None), fault)} :
          log' = Append(log, LogEntry("analyzer", "GET project", r, DirectTrace(r),
                                      IF r.raised THEN FallbackBranch
                                      ELSE r.body.default_branch))
    /\ pc' = "an_branches"
    /\ UNCHANGED <<remote, max_retries, project_info, default_branch, clock,
                   rt, an, cb, mr, gen, fl, mon, hdf, wjc, cli>>

\* ProjectAnalyzer._get_available_branches: the branch names, [] on any
\* exception
AnalyzerBranches ==
    /\ pc = "an_branches"
    /\ \E fault \in ReadFaults :
       \E r \in {requests_get(remote, Request("GET branches", None, None), fault)} :
          log' = Append(log, LogEntry("analyzer", "GET branches", r, DirectTrace(r),
                                      IF r.raised THEN {} ELSE r.body))
    /\ pc' = "env_vars"
    /\ UNCHANGED <<remote, max_retries, project_info, default_branch, clock,
                   rt, an, cb, mr, gen, fl, mon, hdf, wjc, cli>>

\* EnvChecker._get_project_variables: the variables of the project, {} on a
\* RequestException
EnvProjectVariables ==
    /\ pc = "env_vars"
    /\ \E fault \in ReadFaults :
       \E r \in {requests_get(remote, Request("GET variables", None, None), fault)} :
          log' = Append(log, LogEntry("env_checker", "GET variables", r,
                                      DirectTrace(r),
                                      IF r.raised THEN {} ELSE r.body))
    /\ pc' = "cl_project"
    /\ UNCHANGED <<remote, max_retries, project_info, default_branch, clock,
                   rt, an, cb, mr, gen, fl, mon, hdf, wjc, cli>>

\* GitLabHandler.get_project on a fresh client: the request goes through
\* _simple_retry
ClientGetProject ==
    /\ pc = "cl_project"
    /\ \E faults \in FaultSeqs(max_retries, ReadFaults) :
       \E r \in {Call(max_retries, remote, Request("GET project", None, None), faults)} :
       \E p \in {get_project(Client, max_retries, remote, faults)} :
          /\ log' = Append(log, LogEntry("client", "GET project", r, r.trace, p.value))
          /\ project_info' = p.cl.project_info
    /\ pc' = "done"
    /\ UNCHANGED <<remote, max_retries, default_branch, clock,
                   rt, an, cb, mr, gen, fl, mon, hdf, wjc, cli>>

AnalyzerRemotes ==
    { [RemoteOf("main", {Own("main"), Own("develop")}, {})
          EXCEPT !.variables = {"OPENSHIFT_TOKEN"}],
      RemoteOf("develop", {Own("develop")}, {}) }

InitAnalyzer ==
    /\ remote \in AnalyzerRemotes
    /\ max_retries \in 1..MaxRetriesBound
    /\ FreshClient
    /\ clock = 0
    /\ wjc = WjcIdle /\ cli = CliIdle
    /\ an = AnIdle
    /\ pc = "an_default"
    /\ rt = RtIdle /\ log = <<>> /\ cb = CbIdle /\ mr = MrIdle /\ gen = GenIdle
    /\ fl = FlIdle /\ mon = MonIdle /\ hdf = HdfIdle

NextAnalyzer ==
    \/ AnalyzerDefaultBranch
    \/ AnalyzerBranches
    \/ EnvProjectVariables
    \/ ClientGetProject

SpecAnalyzer == InitAnalyzer /\ [][NextAnalyzer]_vars

\* C16: every remote request of the client, the analyzer and the other
\* components goes through the bounded retry wrapper: a request is given up
\* only after max_retries attempts, whoever issues it.
C16_EveryRequestRetried ==
    \A i \in 1..Len(log) :
        log[i].raised => Len(log[i].trace) = max_retries

\* the analyzer gives up after one attempt where the client makes three
C16_GivesUpAfterOneAttempt ==
    /\ pc = "done"
    /\ max_retries = DefaultMaxRetries
    /\ log[1].who = "analyzer" /\ log[1].raised /\ Len(log[1].trace) = 1
    /\ log[4].who = "client" /\ log[4].raised /\ Len(log[4].trace) = DefaultMaxRetries

----------------------------------------------------------------------------
(* SpecClient: a session of one GitLabHandler instance, get_project,        *)
(* get_default_branch and get_available_branches called in any order while  *)
(* the host goes on changing                                               *)

\* the calls of one session
MaxCalls == 2

\* what a call of the session did: the requests it sent (attempts), whether
\* its request was given up (raised), its return value, the caches before and
\* after, and the host it ran against
ClientEntry(op, attempts, raised, value, before, after, host) ==
    [op |-> op, attempts |-> attempts, raised |-> raised, value |-> value,
     before |-> before, after |-> after, host |-> host]

\* both caches of the instance
SetClient(cl) ==
    /\ project_info' = cl.project_info
    /\ default_branch' = cl.default_branch

\* the requests get_project sends: none once the metadata is cached
ProjectAttempts(cl, r) == IF cl.project_info = None THEN Len(r.trace) ELSE 0

SessionGetProject ==
    /\ pc = "client" /\ Len(log) < MaxCalls
    /\ \E faults \in FaultSeqs(max_retries, ReadFaults) :
       \E r \in {Call(max_retries, remote, Request("GET project", None, None), faults)} :
       \E p \in {get_project(Client, max_retries, remote, faults)} :
          /\ log' = Append(log, ClientEntry("get_project", ProjectAttempts(Client, r),
                                            Client.project_info = None /\ r.raised,
                                            p.value, Client, p.cl, remote))
          /\ SetClient(p.cl)
    /\ UNCHANGED <<remote, max_retries, clock, pc, rt, an, cb, mr, gen, fl, mon, hdf,
                   wjc, cli>>

\* the requests get_default_branch sends: those of get_project, on first use
DefaultAttempts(cl, r) ==
    IF cl.default_branch = None THEN ProjectAttempts(cl, r) ELSE 0

SessionGetDefaultBranch ==
    /\ pc = "client" /\ Len(log) < MaxCalls
    /\ \E faults \in FaultSeqs(max_retries, ReadFaults) :
       \E r \in {Call(max_retries, remote, Request("GET project", None, None), faults)} :
       \E d \in {get_default_branch(Client, max_retries, remote, faults)} :
          /\ log' = Append(log, ClientEntry("get_default_branch",
                                            DefaultAttempts(Client, r),
                                            DefaultAttempts(Client, r) > 0 /\ r.raised,
                                            d.value, Client, d.cl, remote))
          /\ SetClient(d.cl)
    /\ UNCHANGED <<remote, max_retries, clock, pc, rt, an, cb, mr, gen, fl, mon, hdf,
                   wjc, cli>>

\* the fates of the metadata request, which is sent only after the branch
\* list could not be fetched
FallbackFaults(r, faults) ==
    IF r.raised THEN FaultSeqs(max_retries, ReadFaults) ELSE {faults}

SessionGetAvailableBranches ==
    /\ pc = "client" /\ Len(log) < MaxCalls
    /\ \E faults \in FaultSeqs(max_retries, ReadFaults) :
       \E r \in {Call(max_retries, remote, Request("GET branches", None, None), faults)} :
       \E dfaults \in FallbackFaults(r, faults) :
       \E b \in {get_available_branches(Client, max_retries, remote, faults, dfaults)} :
          /\ log' = Append(log, ClientEntry("get_available_branches", Len(r.trace),
                                            r.raised, b.value, Client, b.cl, remote))
          /\ SetClient(b.cl)
    /\ UNCHANGED <<remote, max_retries, clock, pc, rt, an, cb, mr, gen, fl, mon, hdf,
                   wjc, cli>>

\* a maintainer makes another branch of the project the default branch
HostChangesDefault ==
    /\ pc = "client" /\ Len(log) < MaxCalls
    /\ \E b \in remote.branches :
          /\ b.name # remote.default
          /\ remote' = [remote EXCEPT !.default = b.name]
    /\ UNCHANGED <<max_retries, project_info, default_branch, clock, pc,
                   rt, an, log, cb, mr, gen, fl, mon, hdf, wjc, cli>>

\* somebody pushes a new branch
HostGetsBranch ==
    /\ pc = "client" /\ Len(log) < MaxCalls
    /\ ~HasBranch(remote, FeatureBranch)
    /\ remote' = [remote EXCEPT !.branches = @ \cup {Own(FeatureBranch)}]
    /\ UNCHANGED <<max_retries, project_info, default_branch, clock, pc,
                   rt, an, log, cb, mr, gen, fl, mon, hdf, wjc, cli>>

ClientRemotes ==
    { RemoteOf("main", {Own("main"), Own("develop")}, {}),
      RemoteOf("develop", {Own("develop")}, {}) }

InitClient ==
    /\ remote \in ClientRemotes
    /\ max_retries \in {1, DefaultMaxRetries}
    /\ FreshClient
    /\ clock = 0
    /\ wjc = WjcIdle /\ cli = CliIdle
    /\ an = AnIdle
    /\ pc = "client"
    /\ rt = RtIdle /\ log = <<>> /\ cb = CbIdle /\ mr = MrIdle /\ gen = GenIdle
    /\ fl = FlIdle /\ mon = MonIdle /\ hdf = HdfIdle

NextClient ==
    \/ SessionGetProject
    \/ SessionGetDefaultBranch
    \/ SessionGetAvailableBranches
    \/ HostChangesDefault
    \/ HostGetsBranch

SpecClient == InitClient /\ [][NextClient]_vars

\* the calls of get_default_branch in the session
DefaultBranchCalls == {i \in 1..Len(log) : log[i].op = "get_default_branch"}

\* C17: get_default_branch never fails the caller: it returns a branch name.
\* On first use it returns the default branch of the project metadata, or
\* 'main' when the metadata cannot be fetched, and stores what it returns;
\* from then on it returns the stored name without a request.
C17_DefaultBranchNeverFails ==
    \A i \in DefaultBranchCalls :
        /\ log[i].value # None
        /\ log[i].after.default_branch = log[i].value
        /\ IF log[i].before.default_branch # None
           THEN /\ log[i].value = log[i].before.default_branch
                /\ log[i].attempts = 0
           ELSE IF log[i].after.project_info = None
           THEN /\ log[i].raised
                /\ log[i].attempts = max_retries
                /\ log[i].value = FallbackBranch
           ELSE /\ log[i].value = log[i].after.project_info
                /\ (log[i].before.project_info = None
                        => log[i].value = log[i].host.default)

\* a session that got the fallback because the metadata request failed, and
\* got it again from the cache after the host became reachable with another
\* default branch
C17_Witness ==
    \E i, j \in DefaultBranchCalls :
        /\ i < j
        /\ log[i].raised /\ log[i].value = FallbackBranch
        /\ log[j].attempts = 0 /\ log[j].value = FallbackBranch
        /\ log[j].host.default # FallbackBranch

\* C18: the cached project metadata and the cached default branch are
\* written at most once per client instance: once a cache holds a value, no
\* step of the session changes it.
C18_CachesWrittenOnce ==
    [][ /\ (project_info # None => project_info' = project_info)
        /\ (default_branch # None => default_branch' = default_branch) ]_vars

\* both caches were filled by the first call, the host then changed its
\* default branch, and a second get_project left both caches as they were
C18_Witness ==
    /\ Len(log) = 2
    /\ log[1].op = "get_default_branch"
    /\ log[1].after.project_info # None
    /\ log[2].op = "get_project"
    /\ log[2].host.default # log[1].host.default
    /\ project_info = log[1].after.project_info
    /\ default_branch = log[1].after.default_branch

\* the calls of get_available_branches in the session
BranchListCalls == {i \in 1..Len(log) : log[i].op = "get_available_branches"}

NamesOn(host) == {b.name : b \in host.branches}

C38_CachedBranchMatchesMetadata ==
    (project_info # None /\ default_branch # None) => default_branch = project_info

\* get_default_branch failed first and memoized 'main'; get_project then
\* fetched the metadata of a project whose only branch is develop
MainMemoizedBesideDevelop ==
    /\ Len(log) = 2
    /\ log[1].op = "get_default_branch" /\ log[2].op = "get_project"
    /\ default_branch = FallbackBranch /\ project_info = "develop"
    /\ remote.default = "develop" /\ ~HasBranch(remote, FallbackBranch)

----------------------------------------------------------------------------
(* SpecCommit: one call of GitLabHandler.commit_files *)

FileActions == [action : {"create", "update"}, file_path : Paths]

\* the action lists _create_pipeline_files builds: one action per file
CommitActionLists ==
    { <<a>> : a \in FileActions } \cup
    { <<a, b>> : a \in {f \in FileActions : f.file_path = PipelineFile},
                 b \in {f \in FileActions : f.file_path # PipelineFile} }

\* the feature branch before the call: empty, or holding some of the files
CommitRemotes ==
    { [RemoteOf("main", {Own("main"), Own(FeatureBranch)}, {})
          EXCEPT !.files = {<<FeatureBranch, f>> : f \in present}] :
        present \in SUBSET Paths }

\* commit_files(branch_name, commit_message, actions)
CommitFiles ==
    /\ pc = "commit"
    /\ \E faults \in FaultSeqs(max_retries, Faults) :
       \E r \in {Call(max_retries, remote,
                      Request("POST commit", log[1].branch, log[1].actions), faults)} :
       \E c \in {commit_files(max_retries, remote, log[1].branch, log[1].actions,
                              faults)} :
          /\ log' = <<[log[1] EXCEPT !.state = "returned", !.id = c.id,
                                     !.before = Len(remote.commits),
                                     !.attempts = Len(r.trace)]>>
          /\ remote' = c.rem
    /\ pc' = "done"
    /\ UNCHANGED <<max_retries, project_info, default_branch, clock,
                   rt, an, cb, mr, gen, fl, mon, hdf, wjc, cli>>

InitCommit ==
    /\ remote \in CommitRemotes
    /\ max_retries \in 1..MaxRetriesBound
    /\ FreshClient
    /\ clock = 0
    /\ wjc = WjcIdle /\ cli = CliIdle
    /\ an = AnIdle
    /\ pc = "commit"
    /\ \E actions \in CommitActionLists :
          log = <<[op |-> "commit_files", state |-> "called",
                   branch |-> FeatureBranch, actions |-> actions,
                   id |-> 0, before |-> 0, attempts |-> 0]>>
    /\ rt = RtIdle /\ cb = CbIdle /\ mr = MrIdle /\ gen = GenIdle
    /\ fl = FlIdle /\ mon = MonIdle /\ hdf = HdfIdle

NextCommit == CommitFiles

SpecCommit == InitCommit /\ [][NextCommit]_vars

\* the commits the host took during the call
NewCommits == SubSeq(remote.commits, log[1].before + 1, Len(remote.commits))

\* C20: commit_files submits all the actions in one commit request, so the
\* branch receives one commit containing every action or none of them.
C20_OneCommitOrNone ==
    pc = "done" =>
        /\ Len(NewCommits) <= 1
        /\ \A i \in 1..Len(NewCommits) :
              /\ NewCommits[i].branch = log[1].branch
              /\ NewCommits[i].actions = log[1].actions

\* the response to the first request was lost and the request was sent
\* again: the branch holds the commit twice
CommittedTwice ==
    /\ pc = "done"
    /\ log[1].attempts = 2 /\ log[1].id # 0
    /\ Len(NewCommits) = 2


\* C35: one commit_files call leaves at most one new commit on the branch,
\* and returns None only when it left none, whatever responses were lost and
\* whatever requests the retry wrapper sent again.
C35_AtMostOneCommitNoneMeansNone ==
    pc = "done" =>
        /\ Len(NewCommits) <= 1
        /\ log[1].id = 0 => NewCommits = <<>>

\* the first response was lost, the request sent again was refused because
\* the file was there by then: None is returned and the branch holds the commit
NoneButCommitted ==
    /\ pc = "done"
    /\ log[1].attempts >= 2 /\ log[1].id = 0
    /\ Len(NewCommits) = 1
----------------------------------------------------------------------------
(* SpecAccess: the pipeline and job accessors of GitLabHandler, called one  *)
(* after the other                                                         *)

\* a handler that lets everything but an HTTPError through
CatchesHttpOnly(r) == r.raised /\ r.http

\* except Exception as e: every error _simple_retry raises is caught
Catches(r) == r.raised

\* what an accessor did: whether its request was given up (raised), whether
\* the error reached the caller (escaped), and what it returned
AccessEntry(op, r, value) ==
    [op |-> op, raised |-> r.raised, escaped |-> r.raised /\ ~Catches(r),
     value |-> value]

AccessLatestPipeline ==
    /\ pc = "ac_latest"
    /\ \E faults \in FaultSeqs(max_retries, ReadFaults) :
       \E r \in {Call(max_retries, remote, Request("GET pipelines", "main", None),
                      faults)} :
       \E p \in {get_latest_pipeline_with_id(max_retries, remote, "main", faults)} :
          log' = Append(log, AccessEntry("get_latest_pipeline_with_id", r, p.pipeline))
    /\ pc' = "ac_pipeline"
    /\ UNCHANGED <<remote, max_retries, project_info, default_branch, clock,
                   rt, an, cb, mr, gen, fl, mon, hdf, wjc, cli>>

AccessPipelineById ==
    /\ pc = "ac_pipeline"
    /\ \E faults \in FaultSeqs(max_retries, ReadFaults) :
       \E r \in {Call(max_retries, remote, Request("GET pipeline", 1, None), faults)} :
       \E p \in {get_pipeline_by_id(max_retries, remote, 1, faults,
                                    NoLatency(max_retries))} :
          log' = Append(log, AccessEntry("get_pipeline_by_id", r, p.status))
    /\ pc' = "ac_jobs"
    /\ UNCHANGED <<remote, max_retries, project_info, default_branch, clock,
                   rt, an, cb, mr, gen, fl, mon, hdf, wjc, cli>>

AccessPipelineJobs ==
    /\ pc = "ac_jobs"
    /\ \E faults \in FaultSeqs(max_retries, ReadFaults) :
       \E r \in {Call(max_retries, remote, Request("GET jobs", 1, None), faults)} :
       \E j \in {get_pipeline_jobs(max_retries, remote, 1, faults,
                                   NoLatency(max_retries))} :
          log' = Append(log, AccessEntry("get_pipeline_jobs", r, j.jobs))
    /\ pc' = "ac_retry"
    /\ UNCHANGED <<remote, max_retries, project_info, default_branch, clock,
                   rt, an, cb, mr, gen, fl, mon, hdf, wjc, cli>>

\* retry_job(1): the host answers 404 when the pipeline has no job
AccessRetryJob ==
    /\ pc = "ac_retry"
    /\ \E faults \in FaultSeqs(max_retries, Faults) :
       \E r \in {Call(max_retries, remote, Request("POST retry", 1, None), faults)} :
       \E j \in {retry_job(max_retries, remote, 1, faults)} :
          /\ log' = Append(log, AccessEntry("retry_job", r, j.ok))
          /\ remote' = j.rem
    /\ pc' = "done"
    /\ UNCHANGED <<max_retries, project_info, default_branch, clock,
                   rt, an, cb, mr, gen, fl, mon, hdf, wjc, cli>>

InitAccess ==
    /\ \E jobs \in JobLists : \E status \in {"none", "running", "failed"} :
         remote = [RemoteOf("main", {Own("main")}, {}) EXCEPT !.pstatus = status,
                                                              !.jobs = jobs]
    /\ max_retries \in 1..MaxRetriesBound
    /\ FreshClient
    /\ clock = 0
    /\ wjc = WjcIdle /\ cli = CliIdle
    /\ an = AnIdle
    /\ pc = "ac_latest"
    /\ rt = RtIdle /\ log = <<>> /\ cb = CbIdle /\ mr = MrIdle /\ gen = GenIdle
    /\ fl = FlIdle /\ mon = MonIdle /\ hdf = HdfIdle

NextAccess ==
    \/ AccessLatestPipeline
    \/ AccessPipelineById
    \/ AccessPipelineJobs
    \/ AccessRetryJob

SpecAccess == InitAccess /\ [][NextAccess]_vars

\* what an accessor returns when its request failed
AbsentResult(op) ==
    CASE op = "get_pipeline_jobs" -> <<>>
      [] op = "retry_job" -> FALSE
      [] OTHER -> None

\* C22: get_latest_pipeline_with_id, get_pipeline_by_id, get_pipeline_jobs and
\* retry_job never raise: a request that was given up is reported to the
\* caller as None, an empty list or False.
C22_AccessorsNeverRaise ==
    \A i \in 1..Len(log) :
        /\ ~log[i].escaped
        /\ (log[i].raised => log[i].value = AbsentResult(log[i].op))

\* all four accessors were called with the host unreachable
C22_Witness ==
    /\ pc = "done"
    /\ max_retries = DefaultMaxRetries
    /\ \A i \in 1..4 : log[i].raised /\ log[i].value = AbsentResult(log[i].op)
    /\ {log[i].op : i \in 1..4} = {"get_latest_pipeline_with_id", "get_pipeline_by_id",
                                    "get_pipeline_jobs", "retry_job"}

----------------------------------------------------------------------------
(* ProjectAnalyzer: the pure parts *)

\* priority_branches = ["develop", "dev", default_branch, "main", "master"]
PriorityBranches(default) == <<"develop", "dev", default, "main", "master">>

\* _get_primary_branch_for_analysis: the first priority branch that is in
\* available_branches, else default_branch
RECURSIVE FirstListed(_, _, _)
FirstListed(branches, available_branches, otherwise) ==
    IF branches = <<>> THEN otherwise
    ELSE IF Head(branches) \in available_branches THEN Head(branches)
    ELSE FirstListed(Tail(branches), available_branches, otherwise)

\* a choice that looks at the default branch only
PrimaryIsDefault(available_branches, default) == default

_get_primary_branch_for_analysis(available_branches, default) ==
    FirstListed(PriorityBranches(default), available_branches, default)

\* the paths the hosts of the analysis hold
UpperCasePipelineFile == ".GitLab-CI.yml"
FileNames ==
    {PipelineFile, UpperCasePipelineFile, "Dockerfile", "README.md",
     "requirements.txt", "package.json", "app.py", "index.js", "src/util.py",
     "src/Main.PY", "lib/tool.js"}

\* a comparison that keeps the case
SameCase(f) == f

\* str.lower() on these paths
Lower(f) ==
    CASE f = UpperCasePipelineFile -> PipelineFile
      [] f = "Dockerfile" -> "dockerfile"
      [] f = "README.md" -> "readme.md"
      [] f = "src/Main.PY" -> "src/main.py"
      [] OTHER -> f

\* files_lower = [f.lower() for f in files]
FilesLower(files) == {Lower(f) : f \in files}

\* '.gitlab-ci.yml' in [f.lower() for f in files]
HasPipelineFile(files) == PipelineFile \in FilesLower(files)

python_indicators ==
    {"app.py", "main.py", "server.py", "manage.py", "wsgi.py", "asgi.py",
     "requirements.txt", "setup.py", "pyproject.toml", "__init__.py"}

nodejs_indicators ==
    {"package.json", "server.js", "app.js", "index.js", "yarn.lock",
     "package-lock.json"}

\* f.endswith('.py') and f.endswith('.js') on lower-cased paths
EndsWithPy(f) ==
    f \in {"app.py", "main.py", "server.py", "manage.py", "wsgi.py", "asgi.py",
           "setup.py", "__init__.py", "src/util.py", "src/main.py"}
EndsWithJs(f) ==
    f \in {"server.js", "app.js", "index.js", "lib/tool.js"}

\* the indicators found plus the files with the extension (a file that is
\* both counts twice)
python_count(files) ==
    Cardinality(python_indicators \cap FilesLower(files))
        + Cardinality({f \in files : EndsWithPy(Lower(f))})
nodejs_count(files) ==
    Cardinality(nodejs_indicators \cap FilesLower(files))
        + Cardinality({f \in files : EndsWithJs(Lower(f))})

\* a decision that leaves a tie open
DecideNoTieBreak(py, js) ==
    IF py > js THEN "python"
    ELSE IF js > py THEN "javascript"
    ELSE "unknown"

\* the decision of _detect_language: "Tie goes to Python"
Decide(py, js) ==
    IF py > js THEN "python"
    ELSE IF js > py THEN "javascript"
    ELSE IF py > 0 THEN "python"
    ELSE "unknown"

_detect_language(files) == Decide(python_count(files), nodejs_count(files))

service_indicators ==
    {"dockerfile", "docker-compose.yml", "app.py", "server.py", "server.js",
     "manage.py", "wsgi.py", "asgi.py"}
package_indicators == {"setup.py", "pyproject.toml", "package.json"}

_detect_type(files) ==
    IF service_indicators \cap FilesLower(files) # {} THEN "service"
    ELSE IF package_indicators \cap FilesLower(files) # {} THEN "package"
    ELSE "unknown"

----------------------------------------------------------------------------
(* SpecAnalyze: one call of ProjectAnalyzer.analyze *)

\* a try block without a handler
EscapesWhenRaised(r) == r.raised

\* the error leaves a try block whose handler is "except Exception"
Escapes(r) == r.raised /\ ~Catches(r)

\* where analyze() hands its result
AnReturnPc == IF cli.cmd = "init" THEN "init_confirm" ELSE "done"

\* an error nothing caught ends analyze()
AnRaise ==
    /\ an' = [an EXCEPT !.state = "raised"]
    /\ pc' = AnReturnPc

\* project_data["default_branch"] = self._get_default_branch()
AnDefault ==
    /\ pc = "an_default"
    /\ \E fault \in ReadFaults :
       \E r \in {requests_get(remote, Request("GET project", None, None), fault)} :
          IF Escapes(r)
          THEN AnRaise
          ELSE /\ an' = [an EXCEPT
                           !.default_branch = IF r.raised THEN FallbackBranch
                                              ELSE r.body.default_branch,
                           !.failed = IF r.raised THEN @ \cup {"default_branch"}
                                      ELSE @]
               /\ pc' = "an_branches"
    /\ UNCHANGED <<remote, max_retries, project_info, default_branch, clock,
                   rt, log, cb, mr, gen, fl, mon, hdf, wjc, cli>>

\* project_data["available_branches"] = self._get_available_branches(), and
\* the entry of _check_for_pipeline
AnBranches ==
    /\ pc = "an_branches"
    /\ \E fault \in ReadFaults :
       \E r \in {requests_get(remote, Request("GET branches", None, None), fault)} :
          IF Escapes(r)
          THEN AnRaise
          ELSE /\ an' = [an EXCEPT
                           !.available_branches = IF r.raised THEN {} ELSE r.body,
                           !.failed = IF r.raised THEN @ \cup {"available_branches"}
                                      ELSE @,
                           !.queue = PriorityBranches(an.default_branch)]
               /\ pc' = "an_probe"
    /\ UNCHANGED <<remote, max_retries, project_info, default_branch, clock,
                   rt, log, cb, mr, gen, fl, mon, hdf, wjc, cli>>

\* _check_for_pipeline: for branch in branches_to_check
AnProbe ==
    /\ pc = "an_probe"
    /\ IF an.queue = <<>>
       THEN \* return False
            /\ an' = an
            /\ fl' = fl
            /\ pc' = "an_primary"
       ELSE IF Head(an.queue) \notin an.available_branches
       THEN /\ an' = [an EXCEPT !.queue = Tail(@)]
            /\ fl' = fl
            /\ pc' = "an_probe"
       ELSE \* files = self.gitlab.get_file_list(ref=branch)
            /\ an' = [an EXCEPT !.probes = Append(@, Head(an.queue))]
            /\ fl' = FlCall(Head(an.queue), "an_probe")
            /\ pc' = "fl_tree"
    /\ UNCHANGED <<remote, max_retries, project_info, default_branch, clock,
                   rt, log, cb, mr, gen, mon, hdf, wjc, cli>>

\* if '.gitlab-ci.yml' in [f.lower() for f in files]: return True
AnProbeDone ==
    /\ pc = "an_probe_done"
    /\ IF HasPipelineFile(fl.result)
       THEN /\ an' = [an EXCEPT !.listed = Append(@, fl.result),
                                !.has_pipeline = TRUE]
            /\ pc' = "an_primary"
       ELSE /\ an' = [an EXCEPT !.listed = Append(@, fl.result),
                                !.queue = Tail(@)]
            /\ pc' = "an_probe"
    /\ UNCHANGED <<remote, max_retries, project_info, default_branch, clock,
                   rt, log, cb, mr, gen, fl, mon, hdf, wjc, cli>>

\* _get_analysis_files: files = self.gitlab.get_file_list(ref=primary_branch)
AnPrimary ==
    /\ pc = "an_primary"
    /\ \E primary \in {_get_primary_branch_for_analysis(an.available_branches,
                                                        an.default_branch)} :
          /\ an' = [an EXCEPT !.primary = primary]
          /\ fl' = FlCall(primary, "an_files")
    /\ pc' = "fl_tree"
    /\ UNCHANGED <<remote, max_retries, project_info, default_branch, clock,
                   rt, log, cb, mr, gen, mon, hdf, wjc, cli>>

\* files, analysis_branch = ...; language and type; return project_data
AnFilesDone ==
    /\ pc = "an_files_done"
    /\ an' = [an EXCEPT !.files = fl.result,
                        !.analysis_branch = an.primary,
                        !.language = _detect_language(fl.result),
                        !.type = _detect_type(fl.result),
                        !.state = "returned"]
    /\ pc' = AnReturnPc
    /\ UNCHANGED <<remote, max_retries, project_info, default_branch, clock,
                   rt, log, cb, mr, gen, fl, mon, hdf, wjc, cli>>

Analyze ==
    \/ AnDefault
    \/ AnBranches
    \/ AnProbe
    \/ AnProbeDone
    \/ AnPrimary
    \/ AnFilesDone

HostWith(default, files) ==
    [RemoteOf(default, {Own(f[1]) : f \in files}, {}) EXCEPT !.files = files]

AnalyzeRemotes ==
    { HostWith("main", {<<"main", "app.py">>, <<"main", "requirements.txt">>,
                        <<"develop", "app.py">>, <<"develop", "Dockerfile">>}),
      HostWith("main", {<<"main", PipelineFile>>, <<"main", "index.js">>,
                        <<"develop", "package.json">>}),
      HostWith("develop", {<<"develop", UpperCasePipelineFile>>,
                           <<"develop", "requirements.txt">>,
                           <<"develop", "package.json">>}),
      HostWith("main", {<<"main", "README.md">>, <<"dev", "src/Main.PY">>,
                        <<"dev", "lib/tool.js">>, <<"dev", "index.js">>}),
      HostWith("master", {<<"master", "README.md">>}) }

InitAnalyze ==
    /\ remote \in AnalyzeRemotes
    /\ max_retries \in 1..MaxRetriesBound
    /\ FreshClient
    /\ clock = 0
    /\ wjc = WjcIdle /\ cli = CliIdle
    /\ an = AnCall("running")
    /\ pc = "an_default"
    /\ rt = RtIdle /\ log = <<>> /\ cb = CbIdle /\ mr = MrIdle /\ gen = GenIdle
    /\ fl = FlIdle /\ mon = MonIdle /\ hdf = HdfIdle

NextAnalyze == Analyze \/ GetFileList

SpecAnalyze == InitAnalyze /\ [][NextAnalyze]_vars

\* the priority list of the run, and the places of its branches that are in
\* the branch list the analyzer obtained
AnPriority == PriorityBranches(an.default_branch)
AnListedPlaces == {i \in 1..Len(AnPriority) : AnPriority[i] \in an.available_branches}

\* the paths that are the pipeline definition file, whatever their case
IsPipelinePath(f) == f \in {PipelineFile, UpperCasePipelineFile}

\* no branch of the host holds a pipeline file
NoPipelineOnHost ==
    \A f \in remote.files : ~IsPipelinePath(f[2])

\* C23: the primary analysis branch is the first entry of ["develop", "dev",
\* default, "main", "master"] that is in the available branches, and the
\* default branch if none is; analyze() reports it as the analysis branch.
\* With branches ["main", "develop"], default "main" and no pipeline file on
\* either, analyze() reports "develop" and has_pipeline = false.
C23_PrimaryBranchByPriority ==
    /\ an.primary # None =>
          IF AnListedPlaces = {}
          THEN an.primary = an.default_branch
          ELSE \E i \in AnListedPlaces :
                  /\ an.primary = AnPriority[i]
                  /\ \A j \in AnListedPlaces : i <= j
    /\ an.state = "returned" =>
          /\ an.analysis_branch = an.primary
          /\ (/\ an.available_branches = {"main", "develop"}
              /\ an.default_branch = "main"
              /\ NoPipelineOnHost)
                => an.analysis_branch = "develop" /\ ~an.has_pipeline

\* the scenario: both listings of the analyzer answered, develop and main
\* were probed for the pipeline file, and the files of develop were analyzed
C23_Witness ==
    /\ an.state = "returned"
    /\ an.failed = {}
    /\ an.available_branches = {"main", "develop"} /\ an.default_branch = "main"
    /\ NoPipelineOnHost
    /\ an.probes = <<"develop", "main", "main">>
    /\ an.analysis_branch = "develop" /\ ~an.has_pipeline
    /\ an.files = {"app.py", "Dockerfile"}

\* the priority branches that are in the branch list, in priority order
IsAvailable(branch) == branch \in an.available_branches
AnCandidates == SelectSeq(AnPriority, IsAvailable)

IsPrefix(s, t) == Len(s) <= Len(t) /\ \A i \in 1..Len(s) : s[i] = t[i]

HoldsPipeline(files) == \E f \in files : IsPipelinePath(f)

\* C24 as stated: has_pipeline is true if and only if some branch among
\* ["develop", "dev", default, "main", "master"] that is in the available
\* branches contains the pipeline definition file.
C24_HasPipelineIffOnBranch ==
    an.state = "returned" =>
        (an.has_pipeline <=>
            \E i \in 1..Len(AnCandidates) :
                HoldsPipeline(FilesOf(remote, AnCandidates[i])))

\* C24: the priority branches that are in the available branches are probed
\* in priority order, each probe being one get_file_list call, and probing
\* stops at the first listing that contains the pipeline definition file
\* (case-insensitive path match); has_pipeline is true if and only if such a
\* listing was obtained.  A branch whose listing could not be fetched counts
\* as not containing the file.
C24_HasPipelineIffListed ==
    /\ IsPrefix(an.probes, AnCandidates)
    /\ Len(an.listed) <= Len(an.probes)
    /\ \A k \in 1..Len(an.listed) :
          /\ an.listed[k] \in {FilesOf(remote, an.probes[k]), {}}
          /\ HoldsPipeline(an.listed[k]) => (k = Len(an.listed) /\ an.has_pipeline)
    /\ an.state = "returned" =>
          /\ Len(an.listed) = Len(an.probes)
          /\ an.has_pipeline <=>
                \E k \in 1..Len(an.listed) : HoldsPipeline(an.listed[k])
          /\ ~an.has_pipeline => an.probes = AnCandidates

\* develop was probed first and holds no pipeline file, main was probed next
\* and holds it: probing stopped there
C24_Witness ==
    /\ an.state = "returned"
    /\ an.probes = <<"develop", "main">>
    /\ ~HoldsPipeline(an.listed[1]) /\ HoldsPipeline(an.listed[2])
    /\ an.has_pipeline

\* the listing of the only branch that holds the pipeline file failed
PipelineMissed ==
    /\ an.state = "returned"
    /\ an.probes = <<"develop", "develop">>
    /\ HoldsPipeline(FilesOf(remote, "develop"))
    /\ an.listed = <<{}, {}>>
    /\ ~an.has_pipeline

\* C25: analyze() never raises: whatever fails on the way to the host, it
\* returns project_data, and a field that could not be filled keeps the
\* value analyze() gave it at the start ('main', [], False, 'unknown').
C25_AnalyzeNeverRaises ==
    /\ an.state # "raised"
    /\ pc = "done" =>
          /\ an.state = "returned"
          /\ an.language \in {"python", "javascript", "unknown"}
          /\ an.type \in {"service", "package", "unknown"}
          /\ "default_branch" \in an.failed => an.default_branch = "main"
          /\ "available_branches" \in an.failed =>
                /\ an.available_branches = {}
                /\ ~an.has_pipeline
                /\ an.analysis_branch = an.default_branch
          /\ an.files = {} => an.language = "unknown" /\ an.type = "unknown"

\* no request of the run was answered: project_data comes back as it was set up
C25_Witness ==
    /\ pc = "done" /\ an.state = "returned"
    /\ an.failed = {"default_branch", "available_branches"}
    /\ fl.outcomes # <<>> /\ fl.result = {}
    /\ an.default_branch = "main" /\ an.available_branches = {}
    /\ an.analysis_branch = "main" /\ an.files = {}
    /\ ~an.has_pipeline /\ an.language = "unknown" /\ an.type = "unknown"

\* C34: the descriptor's analysis_branch names the branch whose listing gave
\* the descriptor's files: when the listing returned by get_file_list is that
\* of another branch than the primary one, analysis_branch is that branch.
C34_AnalysisBranchIsListedBranch ==
    (pc = "done" /\ an.state = "returned" /\ fl.answered_by # None) =>
        /\ an.files = FilesOf(remote, fl.answered_by)
        /\ an.analysis_branch = fl.answered_by

\* the files are those of the default branch, the descriptor names the
\* primary branch, which the host does not have
NamesBranchNotListed ==
    /\ pc = "done" /\ an.state = "returned"
    /\ fl.asked = <<an.primary, remote.default>>
    /\ fl.answered_by = remote.default
    /\ an.files = FilesOf(remote, remote.default) /\ an.files # {}
    /\ an.analysis_branch = an.primary
    /\ ~HasBranch(remote, an.analysis_branch)

----------------------------------------------------------------------------
(* SpecDetect: _detect_language and _detect_type applied to a file list *)

DetectLanguage ==
    /\ pc = "detect"
    /\ an' = [an EXCEPT !.language = _detect_language(an.files),
                        !.type = _detect_type(an.files),
                        !.state = "returned"]
    /\ pc' = "done"
    /\ UNCHANGED <<remote, max_retries, project_info, default_branch, clock,
                   rt, log, cb, mr, gen, fl, mon, hdf, wjc, cli>>

InitDetect ==
    /\ remote = RemoteOf("main", {Own("main")}, {})
    /\ max_retries = DefaultMaxRetries
    /\ FreshClient
    /\ clock = 0
    /\ wjc = WjcIdle /\ cli = CliIdle
    /\ \E files \in SUBSET FileNames : an = [AnCall("running") EXCEPT !.files = files]
    /\ pc = "detect"
    /\ rt = RtIdle /\ log = <<>> /\ cb = CbIdle /\ mr = MrIdle /\ gen = GenIdle
    /\ fl = FlIdle /\ mon = MonIdle /\ hdf = HdfIdle

NextDetect == DetectLanguage

SpecDetect == InitDetect /\ [][NextDetect]_vars

\* no file with the .py or .js extension, in any case
NoExtensionFiles(files) ==
    files \cap {"app.py", "index.js", "src/util.py", "src/Main.PY", "lib/tool.js"} = {}

\* C26: the ecosystem with the higher score wins; equal non-zero scores yield
\* python, the first-registered ecosystem, and not "unknown" (so does a file
\* set with one marker of each ecosystem and no extension files); zero for
\* both yields "unknown".
C26_TieGoesToPython ==
    pc = "done" =>
        /\ python_count(an.files) > nodejs_count(an.files) => an.language = "python"
        /\ nodejs_count(an.files) > python_count(an.files) => an.language = "javascript"
        /\ (python_count(an.files) = nodejs_count(an.files)
                /\ python_count(an.files) > 0) => an.language = "python"
        /\ (python_count(an.files) = 0 /\ nodejs_count(an.files) = 0)
                => an.language = "unknown"
        /\ ({"requirements.txt", "package.json"} \subseteq an.files
                /\ NoExtensionFiles(an.files)) => an.language = "python"

\* one marker of each ecosystem and no extension files: one point each
C26_Witness ==
    /\ pc = "done"
    /\ an.files = {"requirements.txt", "package.json", "README.md"}
    /\ python_count(an.files) = 1 /\ nodejs_count(an.files) = 1
    /\ an.language = "python"

----------------------------------------------------------------------------
(* SpecChoose: _get_best_source_branch and _get_best_target_branch applied  *)
(* to a project_data                                                       *)

\* the longest branch list of a project_data
MaxListed == 2

ListedNames == {"main", "develop", "dev", "master"}

\* the branch lists: no name twice
BranchLists ==
    UNION { {l \in [1..n -> ListedNames] : \A i, j \in 1..n : l[i] = l[j] => i = j} :
            n \in 0..MaxListed }

ProjectDatas ==
    [available_branches : BranchLists,
     analysis_branch : ListedNames \cup {None},
     default_branch : {"main", "develop", "master"}]

\* source_branch = self._get_best_source_branch(project_data, config)
\* target_branch = self._get_best_target_branch(project_data)
ChooseBranches ==
    /\ pc = "choose"
    /\ gen' = [gen EXCEPT !.source_branch = _get_best_source_branch(gen.project_data),
                          !.target_branch = _get_best_target_branch(gen.project_data)]
    /\ pc' = "done"
    /\ UNCHANGED <<remote, max_retries, project_info, default_branch, clock,
                   rt, log, an, cb, mr, fl, mon, hdf, wjc, cli>>

InitChoose ==
    /\ remote = RemoteOf("main", {Own("main")}, {})
    /\ max_retries = DefaultMaxRetries
    /\ FreshClient
    /\ clock = 0
    /\ wjc = WjcIdle /\ cli = CliIdle
    /\ an = AnIdle
    /\ pc = "choose"
    /\ \E project_data \in ProjectDatas : gen = GenCall(project_data, NoConfig)
    /\ rt = RtIdle /\ log = <<>> /\ cb = CbIdle /\ mr = MrIdle /\ fl = FlIdle
    /\ mon = MonIdle /\ hdf = HdfIdle

NextChoose == ChooseBranches

SpecChoose == InitChoose /\ [][NextChoose]_vars

Listed(name) == \E i \in 1..Len(gen.project_data.available_branches) :
                    gen.project_data.available_branches[i] = name

\* C27: the source branch is the analysis branch if it is in the available
\* branches, else the default branch if it is in the available branches, else
\* the first available branch, else 'main'.
C27_SourceBranch ==
    pc = "done" =>
        IF Listed(gen.project_data.analysis_branch)
        THEN gen.source_branch = gen.project_data.analysis_branch
        ELSE IF Listed(gen.project_data.default_branch)
        THEN gen.source_branch = gen.project_data.default_branch
        ELSE IF Len(gen.project_data.available_branches) > 0
        THEN gen.source_branch = gen.project_data.available_branches[1]
        ELSE gen.source_branch = "main"

\* the analysis branch is listed and is not the default branch
C27_Witness ==
    /\ pc = "done"
    /\ gen.project_data = [available_branches |-> <<"main", "develop">>,
                           analysis_branch |-> "develop",
                           default_branch |-> "main"]
    /\ gen.source_branch = "develop"

\* neither the analysis branch nor the default branch is listed
SourceIsFirstListed ==
    /\ pc = "done"
    /\ gen.project_data = [available_branches |-> <<"master", "dev">>,
                           analysis_branch |-> "develop",
                           default_branch |-> "main"]
    /\ gen.source_branch = "master"

\* C28: the target branch of the merge request is the analysis branch if it
\* is "develop" or "dev", else the first of ["develop", "dev", default branch]
\* that is in the available branches, else the default branch.
C28_TargetBranch ==
    pc = "done" =>
        IF gen.project_data.analysis_branch \in {"develop", "dev"}
        THEN gen.target_branch = gen.project_data.analysis_branch
        ELSE IF Listed("develop") THEN gen.target_branch = "develop"
        ELSE IF Listed("dev") THEN gen.target_branch = "dev"
        ELSE gen.target_branch = gen.project_data.default_branch

\* the analysis branch is dev, which the branch list does not hold, while
\* develop is listed: the target is dev
C28_Witness ==
    /\ pc = "done"
    /\ gen.project_data = [available_branches |-> <<"main", "develop">>,
                           analysis_branch |-> "dev",
                           default_branch |-> "main"]
    /\ gen.target_branch = "dev"

----------------------------------------------------------------------------
(* PipelineMonitor.wait_for_job_completion *)

\* the statuses of the jobs of a pipeline that is still running
WaitJobStatuses == {"running", "success"}

\* the job lists the host may hold while a job is waited for
WaitJobLists ==
    UNION { { [i \in 1..n |-> [id |-> i, name |-> f[i].name, stage |-> f[i].name,
                               status |-> f[i].status]] :
              f \in [1..n -> [name : JobNames, status : WaitJobStatuses]] } :
            n \in 0..MaxJobs }

\* the places of the jobs called job_name
Named(jobs, job_name) == {i \in 1..Len(jobs) : jobs[i].name = job_name}

\* for job in jobs: if job.get('name') == job_name: target_job = job; break
\* (the place of the job, 0 for None)
TargetJob(jobs, job_name) ==
    IF Named(jobs, job_name) = {}
    THEN 0
    ELSE CHOOSE i \in Named(jobs, job_name) : \A k \in Named(jobs, job_name) : i <= k

WjcReturn(result) ==
    /\ wjc' = result
    /\ pc' = "done"

\* one iteration of the loop: fetch the jobs, look for the job, decide, sleep
WaitPoll ==
    /\ pc = "wjc_loop"
    /\ StillWaiting(clock, wjc.start_time, wjc.timeout)
    /\ \E now_jobs \in WaitJobLists :
       \E faults \in FaultSeqs(max_retries, ReadFaults) :
       \E host \in {[remote EXCEPT !.jobs = now_jobs]} :
       \E j \in {get_pipeline_jobs(max_retries, host, wjc.pipeline_id,
                                   faults, NoLatency(max_retries))} :
       \E target_job \in {TargetJob(j.jobs, wjc.job_name)} :
       \E w \in {[wjc EXCEPT !.polls = @ + 1, !.fetch_ok = j.ok]} :
         /\ remote' = host
         /\ IF target_job = 0
            THEN \* return {"error": f"Job '{job_name}' not found"}
                 /\ clock' = clock
                 /\ WjcReturn([w EXCEPT !.status = "error"])
            ELSE IF IsFinished(j.jobs[target_job].status)
            THEN /\ clock' = clock
                 /\ WjcReturn([w EXCEPT !.status = j.jobs[target_job].status,
                                        !.duration = clock - wjc.start_time,
                                        !.job_info = j.jobs[target_job].id])
            ELSE \* time.sleep(self.check_interval)
                 /\ clock' = clock + CheckInterval
                 /\ wjc' = w
                 /\ pc' = "wjc_loop"
    /\ UNCHANGED <<max_retries, project_info, default_branch, rt, an, log, cb, mr,
                   gen, fl, mon, hdf, cli>>

\* the loop test fails: return {"job_name": ..., "status": "timeout", ...}
WaitTimeout ==
    /\ pc = "wjc_loop"
    /\ ~StillWaiting(clock, wjc.start_time, wjc.timeout)
    /\ WjcReturn([wjc EXCEPT !.status = "timeout", !.duration = wjc.timeout])
    /\ UNCHANGED <<remote, clock, max_retries, project_info, default_branch,
                   rt, an, log, cb, mr, gen, fl, mon, hdf, cli>>

WaitForJobCompletion == WaitPoll \/ WaitTimeout

(* SpecWait: one call wait_for_job_completion(1, job_name, timeout) *)

InitWait ==
    /\ \E jobs \in WaitJobLists :
         remote = [RemoteOf("main", {Own("main")}, {}) EXCEPT !.pstatus = "running",
                                                              !.jobs = jobs]
    /\ max_retries \in {1, DefaultMaxRetries}
    /\ FreshClient
    /\ clock = 0
    /\ cli = CliIdle
    /\ an = AnIdle
    /\ pc = "wjc_loop"
    /\ \E job_name \in JobNames : \E timeout \in {0, ShortWait, LongWait} :
         wjc = WjcCall(1, job_name, timeout)
    /\ rt = RtIdle /\ log = <<>> /\ cb = CbIdle /\ mr = MrIdle /\ gen = GenIdle
    /\ fl = FlIdle /\ mon = MonIdle /\ hdf = HdfIdle

NextWait == WaitForJobCompletion

SpecWait == InitWait /\ [][NextWait]_vars

\* C31: wait_for_job_completion returns the error result exactly when the job
\* is absent from the pipeline's jobs at its last poll; a job that is there and
\* terminal gives its status, one that is there and not terminal is polled
\* again, and timeout is returned only once the time is up.
C31_ErrorOnlyWhenAbsent ==
    /\ pc = "done" =>
          /\ wjc.status = "error" <=>
                (wjc.polls > 0 /\ Named(remote.jobs, wjc.job_name) = {})
          /\ wjc.status = "timeout" =>
                ~StillWaiting(clock, wjc.start_time, wjc.timeout)
          /\ wjc.status \notin {"error", "timeout"} =>
                /\ IsFinished(wjc.status)
                /\ remote.jobs[wjc.job_info].name = wjc.job_name
                /\ remote.jobs[wjc.job_info].status = wjc.status
    /\ (pc = "wjc_loop" /\ wjc.polls > 0) =>
          /\ Named(remote.jobs, wjc.job_name) # {}
          /\ ~IsFinished(remote.jobs[TargetJob(remote.jobs, wjc.job_name)].status)

\* the job request failed while the job was there and running: "not found"
JobThereButError ==
    /\ pc = "done"
    /\ wjc.status = "error" /\ ~wjc.fetch_ok
    /\ Named(remote.jobs, wjc.job_name) # {}

----------------------------------------------------------------------------
(* SpecFallback: one call of an operation that falls back on a client error:
   get_file_list (404), create_branch (400) or create_merge_request (409) *)

InitFallback ==
    /\ max_retries \in 1..MaxRetriesBound
    /\ FreshClient
    /\ clock = 0
    /\ wjc = WjcIdle /\ cli = CliIdle
    /\ an = AnIdle
    /\ \/ /\ pc = "fl_tree"
          /\ remote \in FileRemotes
          /\ \E ref \in BranchNames : fl = FlCall(ref, "none")
          /\ cb = CbIdle /\ mr = MrIdle
       \/ /\ pc = "cb_enter"
          /\ remote \in {r \in BranchRemotes : HasBranch(r, r.default)}
          /\ \E ref \in {None, "main", "develop"} :
               cb = CbCall(FeatureBranch, ref, "top")
          /\ fl = FlIdle /\ mr = MrIdle
       \/ /\ pc = "mr_enter"
          /\ remote \in MrRemotes
          /\ \E target \in {None, "main"} : mr = MrCall(FeatureBranch, target, "top")
          /\ fl = FlIdle /\ cb = CbIdle
    /\ rt = RtIdle /\ log = <<>> /\ gen = GenIdle /\ mon = MonIdle /\ hdf = HdfIdle

NextFallback == GetFileList \/ CreateBranch \/ CreateMergeRequest

SpecFallback == InitFallback /\ [][NextFallback]_vars

\* the sleeps of a call whose max attempts all failed: 2, 4, ... seconds
BackoffSleeps(max) == [k \in 1..(max - 1) |-> k * BackoffUnit]

\* C36: a fallback is decided only after the retry wrapper has made all its
\* max_retries attempts of the failing request, with the backoff sleeps in
\* between, also when the answer is a client error: the tree request that ends
\* not-found, the branch creation that ends 400 and the merge request creation
\* that ends 409 have each been sent max_retries times.
C36_FallbackAfterAllAttempts ==
    /\ \A i \in 1..Len(fl.outcomes) :
          fl.outcomes[i] # "ok" =>
              /\ fl.tries[i] = max_retries
              /\ fl.sleeps[i] = BackoffSleeps(max_retries)
    /\ (fl.depth > 0 \/ fl.probing) => fl.tries[1] = max_retries
    /\ \A i \in 1..Len(cb.creates) :
          cb.creates[i].outcome # "ok" =>
              /\ cb.creates[i].tries = max_retries
              /\ cb.creates[i].sleeps = BackoffSleeps(max_retries)
    /\ cb.fellback =>
          /\ cb.creates[1].outcome = "400"
          /\ cb.creates[1].tries = max_retries
    /\ (mr.final409 \/ mr.lookups > 0) =>
          /\ mr.tries = max_retries
          /\ mr.sleeps = BackoffSleeps(max_retries)

\* a tree request answered 404 three times, with sleeps of 2 and 4 seconds,
\* before the default branch was asked for
C36_Witness ==
    /\ max_retries = 3
    /\ fl.depth = 1
    /\ fl.outcomes[1] = "notfound"
    /\ fl.tries[1] = 3
    /\ fl.sleeps[1] = <<2, 4>>

----------------------------------------------------------------------------
(* SpecMonitorRun: one call of cli.monitor_merge_request_pipeline with the  *)
(* basic monitor, from the entry of its try block on, with an interrupt     *)
(* that may arrive while any of its steps is running                        *)

\* time.sleep(10)
InitialWait == 10

\* all_vars.get('OPENSHIFT_SERVER'), all_vars.get('OPENSHIFT_TOKEN')
CredentialKeys == {"OPENSHIFT_SERVER", "OPENSHIFT_TOKEN"}

\* what the user may type at the prompt, character by character
RawAnswers ==
    { <<>>, <<"y">>, <<"Y">>, <<" ", "y", " ">>, <<"y", "e", "s">>,
      <<"Y", "E", "S">>, <<"n">>, <<"N">>, <<"n", "o">>, <<" ">> }

IsSpace(ch) == ch = " "

\* str.strip()
RECURSIVE Strip(_)
Strip(str) ==
    IF str = <<>> THEN <<>>
    ELSE IF IsSpace(Head(str)) THEN Strip(Tail(str))
    ELSE IF IsSpace(str[Len(str)]) THEN Strip(SubSeq(str, 1, Len(str) - 1))
    ELSE str

LowerOf(ch) ==
    CASE ch = "Y" -> "y" [] ch = "E" -> "e" [] ch = "S" -> "s"
      [] ch = "N" -> "n" [] ch = "O" -> "o" [] OTHER -> ch

\* str.lower()
LowerChars(str) == [i \in 1..Len(str) |-> LowerOf(str[i])]

\* a prompt that takes every answer for a yes
ProceedsAlways(confirm) == TRUE

\* not (confirm and confirm not in ['y', 'yes', ''])
Proceeds(confirm) ==
    ~(confirm # <<>> /\ confirm \notin {<<"y">>, <<"y", "e", "s">>, <<>>})

\* any(job.get('name') == 'deploy' for job in failed_jobs)
DeployJobFailed(failed_jobs) ==
    \E i \in 1..Len(failed_jobs) : failed_jobs[i].name = "deploy"

\* the call returns to init
MmrReturn(c) ==
    /\ cli' = [c EXCEPT !.outcome = "returned"]
    /\ pc' = "done"

\* print("Waiting for pipeline to start..."); time.sleep(10)
MmrWait ==
    /\ pc = "mmr_wait"
    /\ clock' = clock + InitialWait
    /\ pc' = "mmr_latest"
    /\ UNCHANGED <<remote, max_retries, project_info, default_branch,
                   rt, an, log, cb, mr, gen, fl, mon, hdf, wjc, cli>>

\* pipeline = gitlab_handler.get_latest_pipeline_with_id(ref=source_branch)
\* and the choice between monitoring, analysing and reporting
MmrLatest ==
    /\ pc = "mmr_latest"
    /\ \E now_status \in PipelineStatuses \cup {"none"} :
       \E faults \in FaultSeqs(max_retries, ReadFaults) :
       \E host \in {[remote EXCEPT !.pstatus = now_status]} :
       \E p \in {get_latest_pipeline_with_id(max_retries, host, "feature", faults)} :
         /\ remote' = host
         /\ IF ~p.found
            THEN \* if not pipeline: return
                 MmrReturn(cli) /\ mon' = mon
            ELSE IF p.pipeline.status \in {"pending", "running"}
            THEN \* monitor.monitor_pipeline(pipeline_id, max_wait_time=1800),
                 \* the wait scaled down to ShortWait
                 /\ mon' = [MonCall(p.pipeline.id, ShortWait)
                               EXCEPT !.start_time = clock]
                 /\ pc' = "mon_loop"
                 /\ cli' = cli
            ELSE IF p.pipeline.status = "failed"
            THEN \* analysis = monitor._analyze_failure(pipeline_id)
                 /\ mon' = [MonCall(p.pipeline.id, 0)
                               EXCEPT !.start_time = clock, !.status = "failed"]
                 /\ pc' = "mon_analyze"
                 /\ cli' = cli
            ELSE \* result = {"status": current_status}
                 /\ mon' = [MonCall(p.pipeline.id, 0)
                               EXCEPT !.start_time = clock,
                                      !.status = p.pipeline.status]
                 /\ pc' = "mmr_result"
                 /\ cli' = cli
    /\ UNCHANGED <<max_retries, project_info, default_branch, clock,
                   rt, an, log, cb, mr, gen, fl, hdf, wjc>>

\* "Handle results": the monitor's call is over and its result is read; the
\* recovery is offered when the pipeline failed, a failed job is called
\* deploy and the cleaner was imported
MmrResult ==
    /\ pc = "mmr_result"
    /\ \E c \in {[cli EXCEPT !.pipeline_id = mon.pipeline_id,
                             !.status = mon.status,
                             !.failed_jobs = mon.analysis.failed_jobs]} :
         IF /\ c.status = "failed"
            /\ DeployJobFailed(c.failed_jobs)
            /\ c.has_openshift
         THEN cli' = c /\ pc' = "rec_vars"
         ELSE MmrReturn(c)
    /\ mon' = MonIdle
    /\ UNCHANGED <<remote, max_retries, project_info, default_branch, clock,
                   rt, an, log, cb, mr, gen, fl, hdf, wjc>>


\* all_vars: the group variables, then the project variables, each fetched
\* with one direct request that yields {} when it fails; a variable counts
\* when its value is not empty
RecVars ==
    /\ pc = "rec_vars"
    /\ \E group_vars \in SUBSET CredentialKeys :
       \E now_vars \in SUBSET CredentialKeys :
       \E fault \in ReadFaults :
       \E host \in {[remote EXCEPT !.variables = now_vars]} :
       \E r \in {requests_get(host, Request("GET variables", None, None), fault)} :
       \E c \in {[cli EXCEPT !.events = Append(@, "vars"),
                             !.credentials =
                        group_vars \cup (IF r.raised THEN {} ELSE r.body)]} :
         /\ remote' = host
         /\ IF CredentialKeys \subseteq c.credentials
            THEN cli' = c /\ pc' = "rec_prompt"
            ELSE \* print("Missing OpenShift credentials"); return
                 MmrReturn(c)
    /\ UNCHANGED <<max_retries, project_info, default_branch, clock,
                   rt, an, log, cb, mr, gen, fl, mon, hdf, wjc>>

\* confirm = input(...).strip().lower()
RecPrompt ==
    /\ pc = "rec_prompt"
    /\ \/ \E raw \in RawAnswers :
          \E c \in {[cli EXCEPT !.events = Append(@, "prompt"),
                                !.confirm = LowerChars(Strip(raw))]} :
            IF Proceeds(c.confirm)
            THEN cli' = c /\ pc' = "rec_cleanup"
            ELSE \* print("Skipping cleanup"); return
                 MmrReturn(c)
       \/ \* the input is closed: EOFError, caught by except Exception
          MmrReturn(cli)
    /\ UNCHANGED <<remote, max_retries, project_info, default_branch, clock,
                   rt, an, log, cb, mr, gen, fl, mon, hdf, wjc>>

\* cleanup_success = cleanup_openshift_resources(...): the cluster decides
RecCleanup ==
    /\ pc = "rec_cleanup"
    /\ \E cleanup_success \in BOOLEAN :
       \E c \in {[cli EXCEPT !.events = Append(@, "cleanup"),
                             !.cleanup_success = cleanup_success]} :
         IF cleanup_success
         THEN cli' = c /\ pc' = "rec_jobs"
         ELSE \* print("Cleanup failed")
              MmrReturn(c)
    /\ UNCHANGED <<remote, max_retries, project_info, default_branch, clock,
                   rt, an, log, cb, mr, gen, fl, mon, hdf, wjc>>

\* jobs = gitlab_handler.get_pipeline_jobs(pipeline_id) and the search for
\* the failed deploy job, the jobs being what they were when the failure was
\* analysed
RecJobs ==
    /\ pc = "rec_jobs"
    /\ \E faults \in FaultSeqs(max_retries, ReadFaults) :
       \E j \in {get_pipeline_jobs(max_retries, remote, cli.pipeline_id, faults,
                                   NoLatency(max_retries))} :
       \E c \in {[cli EXCEPT !.events = Append(@, "jobs"),
                             !.deploy_job = FirstFailedDeploy(j.jobs)]} :
         IF c.deploy_job # 0
         THEN cli' = c /\ pc' = "rec_retry"
         ELSE \* print("No failed deploy job found")
              MmrReturn(c)
    /\ UNCHANGED <<remote, max_retries, project_info, default_branch, clock,
                   rt, an, log, cb, mr, gen, fl, mon, hdf, wjc>>

\* retry_success = gitlab_handler.retry_job(deploy_job['id'])
RecRetry ==
    /\ pc = "rec_retry"
    /\ \E faults \in FaultSeqs(max_retries, Faults) :
       \E r \in {retry_job(max_retries, remote, cli.deploy_job, faults)} :
         /\ remote' = r.rem
         /\ MmrReturn([cli EXCEPT !.events = Append(@, "retry"),
                                  !.retry_calls = Append(@, cli.deploy_job)])
    /\ UNCHANGED <<max_retries, project_info, default_branch, clock,
                   rt, an, log, cb, mr, gen, fl, mon, hdf, wjc>>

HandleDeployFailureBasic == RecVars \/ RecPrompt \/ RecCleanup \/ RecJobs \/ RecRetry


(* The interrupt.  Ctrl-C raises KeyboardInterrupt in the statement that is
   running; the handlers around that statement are tried from the innermost
   outwards. *)

\* except Exception catches everything but the exits and the interrupt
\* (KeyboardInterrupt derives from BaseException); a handler that takes it
\* too
HandlerCatchesAll(handler, exc) ==
    handler = exc \/ handler \in {"BaseException", "Exception"}

\* does "except <handler>" catch exc
HandlerCatches(handler, exc) ==
    \/ handler = exc
    \/ handler = "BaseException"
    \/ handler = "Exception" /\ exc # "KeyboardInterrupt"

\* except KeyboardInterrupt / except Exception of monitor_merge_request_pipeline
TopLevel == <<"KeyboardInterrupt", "Exception">>

\* the handlers around each place where the run blocks, innermost first
Handlers ==
    [initial_wait |-> TopLevel,
     \* _simple_retry's try, the method's try
     request |-> <<"Exception", "Exception">> \o TopLevel,
     \* the sleep is in _simple_retry's except body: only the method's try
     backoff |-> <<"Exception">> \o TopLevel,
     poll_sleep |-> TopLevel,
     \* _simple_retry, get_pipeline_jobs, _analyze_failure
     analysis_request |-> <<"Exception", "Exception", "Exception">> \o TopLevel,
     analysis_backoff |-> <<"Exception", "Exception">> \o TopLevel,
     display |-> TopLevel,
     \* EnvChecker, the inner and the outer try of handle_deploy_failure_basic
     vars_request |-> <<"RequestException", "Exception", "Exception">> \o TopLevel,
     prompt |-> <<"Exception">> \o TopLevel,
     \* the cleaner's own handlers, handle_deploy_failure_basic
     cleanup |-> <<"TimeoutExpired", "CalledProcessError", "FileNotFoundError",
                   "Exception", "Exception">> \o TopLevel,
     \* _simple_retry, the method, handle_deploy_failure_basic
     recovery_request |-> <<"Exception", "Exception", "Exception">> \o TopLevel,
     recovery_backoff |-> <<"Exception", "Exception">> \o TopLevel]

\* what may be running at each step
SitesAt(at) ==
    CASE at = "mmr_wait" -> {"initial_wait"}
      [] at = "mmr_latest" -> {"request", "backoff"}
      [] at = "mon_loop" -> {"request", "backoff", "poll_sleep"}
      [] at = "mon_analyze" -> {"analysis_request", "analysis_backoff"}
      [] at = "mmr_result" -> {"display"}
      [] at = "rec_vars" -> {"vars_request"}
      [] at = "rec_prompt" -> {"prompt"}
      [] at = "rec_cleanup" -> {"cleanup"}
      [] at = "rec_jobs" -> {"recovery_request", "recovery_backoff"}
      [] at = "rec_retry" -> {"recovery_request", "recovery_backoff"}
      [] OTHER -> {}

\* the place of the first handler that catches exc, 0 when none does
CaughtAt(stack, exc) ==
    IF \E i \in 1..Len(stack) : HandlerCatches(stack[i], exc)
    THEN CHOOSE i \in 1..Len(stack) :
            /\ HandlerCatches(stack[i], exc)
            /\ \A k \in 1..(i - 1) : ~HandlerCatches(stack[k], exc)
    ELSE 0

\* where the interrupt ends: at the top-level except KeyboardInterrupt the
\* run is stopped, below it the interrupt is taken for a failure and the run
\* goes on, with no handler it leaves the function
FateOf(stack) ==
    Only({ IF i = 0 THEN "escaped"
           ELSE IF i = Len(stack) - 1 THEN "stopped"
           ELSE "swallowed" : i \in {CaughtAt(stack, "KeyboardInterrupt")} })

\* an interrupt during the retry request may come before or after the host
\* has taken the request
HostAfterInterrupt(at, site) ==
    IF at = "rec_retry" /\ site = "recovery_request"
    THEN {remote, Serve(remote, Request("POST retry", cli.deploy_job, None)).rem}
    ELSE {remote}

Interrupt ==
    /\ cli.cmd = "monitor"
    /\ ~cli.interrupted
    /\ \E site \in SitesAt(pc) :
       \E fate \in {FateOf(Handlers[site])} :
         /\ cli' = [cli EXCEPT !.interrupted = TRUE, !.site = site,
                               !.outcome = IF fate = "swallowed" THEN @ ELSE fate]
         /\ pc' = IF fate = "swallowed" THEN pc ELSE "done"
         /\ remote' \in HostAfterInterrupt(pc, site)
    /\ UNCHANGED <<max_retries, project_info, default_branch, clock,
                   rt, an, log, cb, mr, gen, fl, mon, hdf, wjc>>

InitMonitorRun ==
    /\ remote = RemoteOf("main", {Own("main"), Own("feature")}, {})
    /\ max_retries = DefaultMaxRetries
    /\ FreshClient
    /\ clock = 0
    /\ wjc = WjcIdle
    \* HAS_OPENSHIFT is what the import of Core.OpenshiftCleaner gave
    /\ \E has_openshift \in BOOLEAN :
          cli = [CliCall("monitor") EXCEPT !.has_openshift = has_openshift,
                                           !.monitoring = TRUE]
    /\ an = AnIdle
    /\ pc = "mmr_wait"
    /\ mon = MonIdle
    /\ rt = RtIdle /\ log = <<>> /\ cb = CbIdle /\ mr = MrIdle /\ gen = GenIdle
    /\ fl = FlIdle /\ hdf = HdfIdle

MonitorMergeRequestPipeline ==
    MmrWait \/ MmrLatest \/ MonitorPipeline \/ MmrResult \/ HandleDeployFailureBasic

NextMonitorRun == MonitorMergeRequestPipeline \/ Interrupt

SpecMonitorRun == InitMonitorRun /\ [][NextMonitorRun]_vars


\* C32: an interrupt delivered while a monitoring run waits, polls, sleeps
\* between retry attempts or prompts is caught by the top-level handler of
\* monitor_merge_request_pipeline: the run is over, nothing escaped, and the
\* host receives nothing more
C32_InterruptStopsMonitoring ==
    /\ [](cli.interrupted => (pc = "done" /\ cli.outcome = "stopped"))
    /\ [][cli.interrupted => (remote' = remote /\ cli' = cli)]_vars

\* the interrupt arrived at the recovery prompt and stopped the run
C32_Witness ==
    /\ cli.interrupted /\ cli.site = "prompt"
    /\ cli.outcome = "stopped" /\ pc = "done"
    /\ cli.events = <<"vars">>

Yes == {<<>>, <<"y">>, <<"y", "e", "s">>}

Before(events, first, then) ==
    \A i \in 1..Len(events) :
        events[i] = then => \E k \in 1..(i - 1) : events[k] = first

Count(events, what) == Cardinality({i \in 1..Len(events) : events[i] = what})

\* C40: handle_deploy_failure_basic cleans the cluster only after both
\* credentials were found and the user confirmed, calls retry_job at most
\* once and only after a successful cleanup, and does neither when the user
\* declined or a credential is missing
C40_CleanupThenOneRetry ==
    /\ "cleanup" \in RangeOf(cli.events) =>
          /\ Before(cli.events, "vars", "cleanup")
          /\ Before(cli.events, "prompt", "cleanup")
          /\ CredentialKeys \subseteq cli.credentials
          /\ cli.confirm \in Yes
    /\ Count(cli.events, "retry") <= 1
    /\ Len(cli.retry_calls) = Count(cli.events, "retry")
    /\ "retry" \in RangeOf(cli.events) =>
          /\ Before(cli.events, "cleanup", "retry")
          /\ cli.cleanup_success
    /\ ( \/ "vars" \in RangeOf(cli.events)
            /\ ~(CredentialKeys \subseteq cli.credentials)
         \/ "prompt" \in RangeOf(cli.events) /\ cli.confirm \notin Yes )
       => /\ "cleanup" \notin RangeOf(cli.events)
          /\ "retry" \notin RangeOf(cli.events)
          /\ remote.retried = <<>>

\* the user typed YES, the cleanup succeeded and the failed deploy job was
\* retried
C40_Witness ==
    /\ pc = "done" /\ cli.outcome = "returned"
    /\ cli.events = <<"vars", "prompt", "cleanup", "jobs", "retry">>
    /\ cli.confirm = <<"y", "e", "s">>
    /\ remote.retried = <<cli.deploy_job>>


----------------------------------------------------------------------------
(* SpecInit: one run of the init command, from the analysis to the point    *)
(* where it hands over to the monitoring, with and without --dry-run and    *)
(* --no-monitor                                                             *)

\* requests.post(url, headers=..., json=payload) and res.raise_for_status()
requests_post(rem, rq, fault) == _make_request(rem, rq, fault, 0)

\* the branch names in the order the host lists them
RECURSIVE ListOf(_, _)
ListOf(names, order) ==
    IF order = <<>>
    THEN <<>>
    ELSE (IF Head(order) \in names THEN <<Head(order)>> ELSE <<>>)
         \o ListOf(names, Tail(order))

HostOrder == <<"main", "master", "develop", "dev", FeatureBranch>>

\* a run that generates whatever the flag says
GeneratesAlways(dry_run) == TRUE

\* step 5: if dry_run: ... else: result = generator.generate_and_commit(...)
Generates(dry_run) == ~dry_run

\* monitor_pipeline = not no_monitor and not dry_run and HAS_MONITOR
MonitorFlag(no_monitor, dry_run) == ~no_monitor /\ ~dry_run

\* the configurations of the runs: one without the detected pipeline type,
\* one with a single file and one whose second template is missing
CliConfigs ==
    { [type_known |-> FALSE, files_to_create |-> <<PipelineFile>>, missing |-> {}],
      [type_known |-> TRUE, files_to_create |-> <<PipelineFile>>, missing |-> {}],
      [type_known |-> TRUE, files_to_create |-> <<PipelineFile, "Dockerfile">>,
       missing |-> {"Dockerfile"}] }

\* the command ends: "returned", or "error" for the ClickException and
\* sys.exit(1) exits
CliEnd(c, outcome) ==
    /\ cli' = [c EXCEPT !.outcome = outcome]
    /\ pc' = "done"

\* steps 2 and 3: the analysis is back; the pipeline type must be one of the
\* configuration
CliConfirm ==
    /\ pc = "init_confirm"
    /\ IF an.state = "raised"
       THEN CliEnd(cli, "error")
       ELSE \E config \in CliConfigs :
            \E c \in {[cli EXCEPT
                         !.config = config,
                         !.project_data =
                            [available_branches |->
                                 ListOf(an.available_branches, HostOrder),
                             analysis_branch |-> an.analysis_branch,
                             default_branch |-> an.default_branch]]} :
              IF ~config.type_known
              THEN \* raise click.ClickException("Pipeline type ... not found")
                   CliEnd(c, "error")
              ELSE cli' = c /\ pc' = "init_env"
    /\ an' = AnIdle
    /\ fl' = FlIdle
    /\ UNCHANGED <<remote, max_retries, project_info, default_branch, clock,
                   rt, log, cb, mr, gen, mon, hdf, wjc>>

\* step 4: missing_vars = env_checker.find_missing(required_vars), and what
\* the user chooses to add when the run is no dry run
CliEnv ==
    /\ pc = "init_env"
    /\ \E required_vars \in {{"OPENSHIFT_SERVER"}, CredentialKeys} :
       \E group_vars \in {{}, {"OPENSHIFT_SERVER"}} :
       \E fault \in ReadFaults :
       \E r \in {requests_get(remote, Request("GET variables", None, None), fault)} :
       \E missing \in {required_vars \ (group_vars \cup
                                          (IF r.raised THEN {} ELSE r.body))} :
       \E vars_to_add \in (IF cli.dry_run THEN {{}} ELSE {{}, missing}) :
         /\ cli' = [cli EXCEPT !.missing = missing,
                               !.to_add = ListOf(vars_to_add,
                                                 <<"OPENSHIFT_SERVER",
                                                   "OPENSHIFT_TOKEN">>)]
         /\ pc' = IF vars_to_add # {} THEN "init_add_vars" ELSE "init_generate"
    /\ UNCHANGED <<remote, max_retries, project_info, default_branch, clock,
                   rt, an, log, cb, mr, gen, fl, mon, hdf, wjc>>

\* env_checker.add_vars(vars_to_add): one POST per variable, a failed one is
\* logged and the loop goes on
CliAddVars ==
    /\ pc = "init_add_vars"
    /\ \E fault \in Faults :
       \E r \in {requests_post(remote, Request("POST variable", Head(cli.to_add),
                                               None), fault)} :
         /\ remote' = r.rem
         /\ cli' = [cli EXCEPT !.added = Append(@, Head(cli.to_add)),
                               !.to_add = Tail(@)]
         /\ pc' = IF Len(cli.to_add) > 1 THEN "init_add_vars" ELSE "init_generate"
    /\ UNCHANGED <<max_retries, project_info, default_branch, clock,
                   rt, an, log, cb, mr, gen, fl, mon, hdf, wjc>>

\* step 5: generator = PipelineGenerator(token, project_url), a client of
\* its own, and the generation unless the run is a dry run
CliGenerate ==
    /\ pc = "init_generate"
    /\ IF Generates(cli.dry_run)
       THEN /\ gen' = GenCall(cli.project_data, cli.config)
            /\ cli' = [cli EXCEPT !.generated = TRUE]
            /\ pc' = "gen_start"
       ELSE \* result = {"success": True, "dry_run": True}
            /\ gen' = gen
            /\ cli' = [cli EXCEPT !.result = "success"]
            /\ pc' = "init_complete"
    /\ project_info' = None
    /\ default_branch' = None
    /\ UNCHANGED <<remote, max_retries, clock,
                   rt, an, log, cb, mr, fl, mon, hdf, wjc>>

\* step 6: the result is checked and the monitoring started, when it is
\* wanted and the result names a merge request
CliComplete ==
    /\ pc = "init_complete"
    /\ \E c \in {[cli EXCEPT !.result = IF cli.generated THEN gen.result ELSE @,
                             !.mr_url = cli.generated /\ gen.merge_request # 0]} :
         IF c.result # "success"
         THEN \* raise click.ClickException("Failed to generate pipeline")
              CliEnd(c, "error")
         ELSE IF ~c.dry_run /\ MonitorFlag(c.no_monitor, c.dry_run) /\ c.mr_url
         THEN \* monitor_merge_request_pipeline(token, project_url, mr_data, ...)
              CliEnd([c EXCEPT !.monitoring = TRUE], "returned")
         ELSE CliEnd(c, "returned")
    /\ UNCHANGED <<remote, max_retries, project_info, default_branch, clock,
                   rt, an, log, cb, mr, gen, fl, mon, hdf, wjc>>

CliInit == CliConfirm \/ CliEnv \/ CliAddVars \/ CliGenerate \/ CliComplete

\* the hosts of the runs: a project with two branches and one whose only
\* branch is master
CliRemotes ==
    { HostWith("main", {<<"main", "app.py">>, <<"main", "requirements.txt">>,
                        <<"develop", "app.py">>, <<"develop", "Dockerfile">>}),
      HostWith("master", {<<"master", "README.md">>}) }

InitInit ==
    /\ remote \in CliRemotes
    /\ max_retries = DefaultMaxRetries
    /\ FreshClient
    /\ clock = 0
    /\ wjc = WjcIdle
    /\ \E dry_run \in BOOLEAN :
       \E no_monitor \in BOOLEAN :
          cli = [CliCall("init") EXCEPT !.dry_run = dry_run,
                                        !.no_monitor = no_monitor]
    /\ an = AnCall("running")
    /\ pc = "an_default"
    /\ rt = RtIdle /\ log = <<>> /\ cb = CbIdle /\ mr = MrIdle /\ gen = GenIdle
    /\ fl = FlIdle /\ mon = MonIdle /\ hdf = HdfIdle

NextInit ==
    \/ Analyze \/ GetFileList \/ CliInit
    \/ GenerateAndCommit \/ CreateBranch \/ CreateMergeRequest

SpecInit == InitInit /\ [][NextInit]_vars


\* C33: with --dry-run the init command changes nothing: it calls neither
\* add_vars nor generate_and_commit (so no branch is created or deleted, no
\* commit and no merge request is made), no job is retried, the host stays as
\* it was, and the monitoring is never started
C33_DryRunChangesNothing ==
    /\ []((cli.cmd = "init" /\ cli.dry_run) =>
            /\ ~cli.generated /\ gen = GenIdle /\ cb = CbIdle /\ mr = MrIdle
            /\ cli.added = <<>> /\ cli.to_add = <<>>
            /\ ~cli.monitoring /\ mon = MonIdle /\ hdf = HdfIdle
            /\ remote \in CliRemotes)
    /\ [][cli.dry_run => remote' = remote]_vars

\* a dry run that found variables missing and ended with success
C33_Witness ==
    /\ pc = "done" /\ cli.cmd = "init" /\ cli.dry_run
    /\ cli.outcome = "returned" /\ cli.result = "success"
    /\ cli.missing = CredentialKeys
    /\ cli.config.files_to_create = <<PipelineFile>>

=============================================================================
